---------------------------- MODULE Spec2Model ----------------------------
(***************************************************************************)
(* Model of the lauyami backend (src/backend): the analysis cache, the      *)
(* upload-agreement stream (route, legal analysis service, N-ATLaS          *)
(* provider), the search service and the per-session vector collections.   *)
(*                                                                         *)
(* Strings are sequences of tokens, so that concatenation, prefixes,       *)
(* character replacement and truncation are computed and not assumed.      *)
(* Time is counted in hours.                                               *)
(***************************************************************************)
EXTENDS Integers, Sequences, FiniteSets, TLC

VARIABLES
    now,            \* datetime.now(), in hours
    cache,          \* cache_service._analysis_cache : key -> entry
    cacheOps,       \* history: the last two cache operations, with their results
    everSet,        \* history: the (text, language) pairs set_cached_analysis was called with
    nCacheOps,      \* history: number of direct cache calls so far
    searchCall,     \* the last query_with_filters call: its inputs and its return value
    titlesCall,     \* the last query_unique_titles call: its inputs and its return value
    uploaded,       \* document_storage_service._uploaded_documents : session_id -> record
    collections,    \* the session collections of the vector store : name -> (point id -> payload)
    deleteTasks,    \* the _delete_from_db tasks delete_session has scheduled and that have not run
    collWriters,    \* history: per existing collection, the sessions whose upload created or filled it
    collDoc,        \* history: per existing collection, the text last handed to ingest_document
    nDbDeletes,     \* history: per session id, how often _delete_from_db was started
    sessionCall,    \* history: the last get_uploaded_document / delete_session call
    cleanup,        \* the background task cleanup_expired_sessions
    sessionQuery,   \* history: the last query of a session collection and its outcome
    nSessionOps,    \* history: number of direct calls of the session operations so far
    llm_base_url,   \* settings.modal.llm_base_url, fixed when the process starts
    stream,         \* the upload-agreement request being served: position and streams so far
    nUploads,       \* history: number of upload requests so far
    natlasRun,      \* history: the last direct run of the natlas streaming function
    table,          \* the rows of the legal documents table of the relational store
    ingestRun,      \* history: the last direct run of the task ingest_documents
    flow,           \* the run of batch_document_ingestion_flow: position and counters
    docFlow,        \* the run of document_ingestion_flow
    reportCall,     \* the last generate_summary_report call: its input and its reports
    promptCall,     \* the last request that asked for a streaming function, and the prompt built
    analysisRuns,   \* the retrieval loops of the analysis generators being served concurrently
    ingestCall,     \* the last direct call of SessionVectorStore.ingest_document
    cleanupTask     \* document_storage_service._cleanup_task and the sweep tasks created so far

cacheVars == <<now, cache, cacheOps, everSet, nCacheOps>>
searchVars == <<searchCall, titlesCall>>
sessionVars == <<uploaded, collections, deleteTasks, collWriters, collDoc, nDbDeletes,
                 sessionCall, cleanup, sessionQuery, nSessionOps>>
streamVars == <<llm_base_url, stream, nUploads, natlasRun>>
ingestVars == <<table, ingestRun, flow, docFlow>>
callVars == <<reportCall, promptCall, analysisRuns, ingestCall, cleanupTask>>
vars == <<cacheVars, searchVars, sessionVars, streamVars, ingestVars, callVars>>

nonCacheVars == <<searchVars, sessionVars, streamVars, ingestVars, callVars>>
nonSearchVars == <<cacheVars, sessionVars, streamVars, ingestVars, callVars>>
\* all but `now`
nonSessionVars == <<cache, cacheOps, everSet, nCacheOps, searchVars, streamVars, ingestVars,
                    callVars>>
nonIngestVars == <<cacheVars, searchVars, sessionVars, streamVars, callVars>>
nonCallVars == <<cacheVars, searchVars, sessionVars, streamVars, ingestVars>>

-----------------------------------------------------------------------------
(* Bounds of the model *)

\* the clock advances in steps of TickHours up to MaxClock
TickHours == 12
MaxClock == 36
\* number of direct calls of the cache functions in one behaviour
MaxCacheOps == 3
\* longest vector-store response, and largest `limit`, of a search call
MaxHits == 2
MaxLimit == 2
\* number of direct calls of store_uploaded_document, delete_session and of
\* session queries in one behaviour
MaxSessionOps == 4
\* number of calls of store_uploaded_document, get_uploaded_document and
\* delete_session in one behaviour with the expiry sweep
MaxExpiryOps == 3
\* number of failing iterations of the expiry sweep in one behaviour
MaxSweepFailures == 1
\* longest list of items handed to ingest_documents
MaxItems == 6
\* number of direct runs of ingest_documents in one behaviour
MaxRuns == 2
\* number of upload requests served concurrently
MaxRequests == 2
\* largest number of chunks of a text handed directly to ingest_document
MaxTextChunks == 12
\* number of calls of start_cleanup_task in one behaviour
MaxStartCalls == 7
\* most lines of an analysis text handed to the report service
MaxLines == 4
\* most entries of the documents configuration of one flow run
MaxEntries == 3
\* number of content deltas of one LLM response
MaxChunks == 2
\* number of upload requests in one behaviour
MaxUploads == 2

(* Program constants *)

\* cache_service.CACHE_TTL = timedelta(hours=24)
CACHE_TTL == 24
\* set_cached_analysis sweeps expired entries once the cache holds more entries than this
CACHE_SWEEP_THRESHOLD == 1000
\* get_session_collection_name keeps the first 50 characters of the session id
SESSION_NAME_MAX == 50
\* generate_document_id keeps session_id[:8] and 50 characters of the file name
DOC_ID_SESSION_PREFIX == 8
DOC_ID_FILENAME_MAX == 50
\* document_storage_service.DEFAULT_SESSION_EXPIRY = timedelta(hours=24)
DEFAULT_SESSION_EXPIRY == 24
\* query_unique_titles fetches max(1, limit) * 280 points
UNIQUE_TITLES_OVERFETCH == 280
\* SessionVectorStore.ingest_document upserts in sub-batches of 10
INGEST_BATCH_SIZE == 10
\* the limit of a session query when the caller gives none
SESSION_QUERY_LIMIT == 5

-----------------------------------------------------------------------------
(* Optional values: Python's None against a present value *)

Absent == [some |-> FALSE, val |-> <<>>]
Some(v) == [some |-> TRUE, val |-> v]

(* Inputs.  Agreement texts and language codes are arbitrary strings: the   *)
(* upload route takes `language` as an unvalidated form field.              *)
Texts == { <<"a">>, <<"a", ":", "yo">> }
Languages == { <<"en">>, <<"yo">>, <<"yo", ":", "en">> }

\* analysis texts: concatenations of streamed chunks; <<>> is the empty string
Analyses == { <<>>, <<"t1">> }

-----------------------------------------------------------------------------
(* cache_service *)

\* hashlib.md5(content.encode()).hexdigest(): a digest of the whole content
\* string; MD5 itself is taken to be collision free on the strings of the model
md5_hexdigest(content) == <<"md5">> \o content

\* _generate_cache_key: md5 of f"{agreement_text}:{language}"
_generate_cache_key(agreement_text, language) ==
    md5_hexdigest(agreement_text \o <<":">> \o language)

\* `datetime.now() - cached_time < CACHE_TTL`
IsFresh(cached_time, t) == t - cached_time < CACHE_TTL

CacheWithout(c, key) == [k \in DOMAIN c \ {key} |-> c[k]]

\* _cleanup_expired_cache: drops every entry with now - timestamp >= CACHE_TTL
_cleanup_expired_cache(c, t) ==
    LET keep == {k \in DOMAIN c : ~(t - c[k].timestamp >= CACHE_TTL)}
    IN  [k \in keep |-> c[k]]

\* get_cached_analysis as it would be without line 51 (`del _analysis_cache[cache_key]`)
get_cached_analysis_keeps_expired(c, agreement_text, language, t) ==
    LET cache_key == _generate_cache_key(agreement_text, language)
    IN  IF cache_key \in DOMAIN c /\ IsFresh(c[cache_key].timestamp, t)
        THEN [ret |-> Some(c[cache_key].analysis), cache |-> c]
        ELSE [ret |-> Absent, cache |-> c]

\* get_cached_analysis: the value returned and the cache it leaves
get_cached_analysis(c, agreement_text, language, t) ==
    LET cache_key == _generate_cache_key(agreement_text, language)
    IN  IF cache_key \in DOMAIN c
        THEN IF IsFresh(c[cache_key].timestamp, t)
             THEN [ret |-> Some(c[cache_key].analysis), cache |-> c]
             ELSE [ret |-> Absent, cache |-> CacheWithout(c, cache_key)]
        ELSE [ret |-> Absent, cache |-> c]

\* set_cached_analysis that stores nothing
set_cached_analysis_stores_nothing(c, agreement_text, analysis, language, t) == c

\* set_cached_analysis: the cache it leaves
set_cached_analysis(c, agreement_text, analysis, language, t) ==
    LET cache_key == _generate_cache_key(agreement_text, language)
        entry == [analysis |-> analysis, timestamp |-> t, language |-> language]
        c1 == [k \in DOMAIN c \cup {cache_key} |-> IF k = cache_key THEN entry ELSE c[k]]
    IN  IF Cardinality(DOMAIN c1) > CACHE_SWEEP_THRESHOLD
        THEN _cleanup_expired_cache(c1, t)
        ELSE c1

-----------------------------------------------------------------------------
(* search_service.query_with_filters *)

Min(a, b) == IF a <= b THEN a ELSE b

\* Python's seq[:n] for n >= 0
Take(seq, n) == SubSeq(seq, 1, Min(n, Len(seq)))

\* a document_id that is None or "" is falsy; both are written NoId
NoId == ""
DocIds == {"d1", "d2", NoId}
\* relevance scores; NoScore is an absent score (None)
NoScore == -1
PointIds == {"p1", "p2"}

\* what SessionVectorStore.query returns for one point; its score is `point.score or 0.0`
SessionChunks == [document_id : DocIds, score : {0, 2}]
\* the points of the main collection's response
MainPoints == [id : PointIds, document_id : DocIds, score : {NoScore, 1}]

\* lines 73-84: one SearchResult per session chunk (origin is a history field)
RECURSIVE SessionResults(_)
SessionResults(session_chunks) ==
    IF session_chunks = <<>> THEN <<>>
    ELSE <<[document_id |-> Head(session_chunks).document_id,
            score |-> Head(session_chunks).score,
            origin |-> "session"]>> \o SessionResults(Tail(session_chunks))

\* lines 123-141: one SearchResult per point, skipping point ids already seen
RECURSIVE MainResults(_, _)
MainResults(points, seen_ids) ==
    IF points = <<>> THEN <<>>
    ELSE IF Head(points).id \in seen_ids
         THEN MainResults(Tail(points), seen_ids)
         ELSE <<[document_id |-> Head(points).document_id,
                 score |-> Head(points).score,
                 origin |-> "main"]>>
              \o MainResults(Tail(points), seen_ids \cup {Head(points).id})

\* line 145 with the two lists in the other order
CombinedResultsMainFirst(session_results, results) == results \o session_results

\* line 145: combined_results = session_results + results
CombinedResults(session_results, results) == session_results \o results

\* lines 147-152: keep the first result of every truthy document_id
RECURSIVE DedupeByDocumentId(_, _)
DedupeByDocumentId(combined, seen_document_ids) ==
    IF combined = <<>> THEN <<>>
    ELSE IF Head(combined).document_id # NoId
            /\ Head(combined).document_id \notin seen_document_ids
         THEN <<Head(combined)>>
              \o DedupeByDocumentId(Tail(combined),
                                    seen_document_ids \cup {Head(combined).document_id})
         ELSE DedupeByDocumentId(Tail(combined), seen_document_ids)

\* the sort key `x.score or 0.0`
SortKey(x) == IF x.score = NoScore THEN 0 ELSE x.score

\* insert x behind every element whose key is >= its own: a stable descending order
RECURSIVE InsertByScore(_, _)
InsertByScore(sorted, x) ==
    IF sorted = <<>> THEN <<x>>
    ELSE IF SortKey(Head(sorted)) >= SortKey(x)
         THEN <<Head(sorted)>> \o InsertByScore(Tail(sorted), x)
         ELSE <<x>> \o sorted

\* line 154: final_results.sort(key=..., reverse=True), which is stable
RECURSIVE SortByScoreDesc(_)
SortByScoreDesc(seq) ==
    IF seq = <<>> THEN <<>>
    ELSE InsertByScore(SortByScoreDesc(SubSeq(seq, 1, Len(seq) - 1)), seq[Len(seq)])

\* query_with_filters.  session is "none" (no session_id), "raised" (the
\* session query failed, lines 87-88) or "ok" with session_chunks; main is
\* "raised" (lines 120-122) or "ok" with points.
query_with_filters(session, session_chunks, main, points, limit) ==
    LET session_results == IF session = "ok" THEN SessionResults(session_chunks) ELSE <<>>
        results == Take(IF main = "ok" THEN MainResults(points, {}) ELSE <<>>, limit)
        combined_results == CombinedResults(session_results, results)
        final_results == SortByScoreDesc(DedupeByDocumentId(combined_results, {}))
    IN  Take(final_results, limit)

\* the except clause of the session part that re-raises
session_except_reraises(e) == [raised |-> TRUE, session_results |-> <<>>]

\* lines 87-88: a failure of the session part is logged; session_results stays empty
session_except(e) == [raised |-> FALSE, session_results |-> <<>>]

\* lines 120-122: a failure of the main query is logged; response = None
main_except(e) == [raised |-> FALSE, points |-> <<>>]

\* whether query_with_filters ends by raising, given how its two queries ended
query_with_filters_raises(session, main) ==
    \/ session = "raised" /\ session_except("session query failed").raised
    \/ main = "raised" /\ main_except("main query failed").raised

NoSearchCall == [called |-> FALSE, session |-> "none", session_chunks |-> <<>>,
                 main |-> "raised", points |-> <<>>, limit |-> 0, ret |-> <<>>,
                 raised |-> FALSE]

\* sequences over S of length at most n
SeqUpTo(S, n) == UNION {[1..k -> S] : k \in 0..n}

\* the responses of the two vector-store queries
SessionResponses ==
    {<<"none", <<>> >>, <<"raised", <<>> >>}
        \cup {<<"ok", chunks>> : chunks \in SeqUpTo(SessionChunks, MaxHits)}
MainResponses ==
    {<<"raised", <<>> >>} \cup {<<"ok", points>> : points \in SeqUpTo(MainPoints, MaxHits)}

\* one call of query_with_filters; the two vector-store responses are inputs
QueryWithFilters(session, session_chunks, main, points, limit) ==
    /\ session # "ok" => session_chunks = <<>>
    /\ main # "ok" => points = <<>>
    /\ Len(session_chunks) <= limit     \* the session query is issued with limit=limit
    /\ searchCall' = [called |-> TRUE, session |-> session,
                      session_chunks |-> session_chunks, main |-> main,
                      points |-> points, limit |-> limit,
                      ret |-> query_with_filters(session, session_chunks, main, points, limit),
                      raised |-> query_with_filters_raises(session, main)]
    /\ UNCHANGED <<titlesCall, nonSearchVars>>

\* a section title that is None or "" is falsy; both are written NoTitle
NoTitle == ""
SectionTitles == {"s1", "s2", NoTitle}
\* the points of the response, in fused-ranking order
TitledPoints == [id : PointIds, section_title : SectionTitles]

\* lines 231-249: the loop over response.points, entered with `results` and
\* `seen_titles`; the test of line 248 comes after the append
RECURSIVE UniqueTitleLoop(_, _, _, _)
UniqueTitleLoop(points, results, seen_titles, limit) ==
    IF points = <<>> THEN results
    ELSE LET title == Head(points).section_title
         IN  IF title = NoTitle \/ title \in seen_titles
             THEN UniqueTitleLoop(Tail(points), results, seen_titles, limit)
             ELSE IF Len(results) + 1 >= limit
                  THEN Append(results, Head(points))
                  ELSE UniqueTitleLoop(Tail(points), Append(results, Head(points)),
                                       seen_titles \cup {title}, limit)

\* query_unique_titles.  main is "raised" (lines 224-226) or "ok" with points.
query_unique_titles(main, points, limit) ==
    IF main = "ok" /\ points # <<>> THEN UniqueTitleLoop(points, <<>>, {}, limit) ELSE <<>>

NoTitlesCall == [called |-> FALSE, main |-> "raised", points |-> <<>>, limit |-> 0,
                 ret |-> <<>>]

TitleResponses ==
    {<<"raised", <<>> >>} \cup {<<"ok", points>> : points \in SeqUpTo(TitledPoints, MaxHits)}

\* one call of query_unique_titles; the vector-store response is an input
QueryUniqueTitles(main, points, limit) ==
    /\ main # "ok" => points = <<>>
    /\ Len(points) <= (IF limit > 1 THEN limit ELSE 1) * UNIQUE_TITLES_OVERFETCH
    /\ titlesCall' = [called |-> TRUE, main |-> main, points |-> points, limit |-> limit,
                      ret |-> query_unique_titles(main, points, limit)]
    /\ UNCHANGED <<searchCall, nonSearchVars>>

-----------------------------------------------------------------------------
(* session_vectorstore_service and document_storage_service *)

\* session ids are caller supplied (form field, path parameter) or generated
SessionIds == { <<"a", "-", "b">>, <<"a", ".", "b">>, <<"c">> }
FileNames == { <<"f", ".", "pdf">> }
\* texts handed to store_uploaded_document; " " is white space.  A token
\* other than white space stands for one chunk-sized block of text.
StoredTexts == { <<" ">>, <<"a">>, <<"a", ":", "yo">> }

\* str.replace(old, new) on single characters
RECURSIVE Replace(_, _, _)
Replace(str, old, new) ==
    IF str = <<>> THEN <<>>
    ELSE <<IF Head(str) = old THEN new ELSE Head(str)>> \o Replace(Tail(str), old, new)

\* get_session_collection_name
get_session_collection_name(session_id) ==
    <<"user_session_">>
        \o Take(Replace(Replace(session_id, "-", "_"), ".", "_"), SESSION_NAME_MAX)

\* generate_document_id: f"upload_{session_id[:8]}_{clean_filename}_{timestamp}"
generate_document_id(session_id, filename, t) ==
    <<"upload_">> \o Take(session_id, DOC_ID_SESSION_PREFIX) \o <<"_">>
        \o Take(Replace(Replace(filename, " ", "_"), ".", "_"), DOC_ID_FILENAME_MAX)
        \o <<"_", ToString(t)>>

\* TextSplitter.split_text: no chunk for empty or white-space text, else one
\* chunk per block
split_text(text) == SelectSeq(text, LAMBDA tok : tok # " ")

\* the fields ArticleChunkPayload declares, with their defaults; None is Absent
\* (published_at and created_at, both the time of construction, are left out)
PayloadDefaults ==
    [feed_name |-> Some(<<>>), feed_author |-> Some(<<>>), article_authors |-> Some(<<>>),
     title |-> Some(<<>>), url |-> Absent, chunk_index |-> Some(<<0>>), chunk_text |-> Absent]

\* ArticleChunkPayload(**kwargs): a pydantic model without configuration keeps
\* the declared fields and ignores every other keyword
ArticleChunkPayload(kwargs) ==
    [f \in DOMAIN PayloadDefaults |->
        IF f \in DOMAIN kwargs THEN Some(kwargs[f]) ELSE PayloadDefaults[f]]

\* ingest_document lines 131-141: the payload of chunk i (0-based)
ChunkPayload(session_id, filename, chunks, i) ==
    ArticleChunkPayload(
        [section_title |-> <<"Section ", i + 1>>,
         document_title |-> <<"Uploaded Agreement: ">> \o filename,
         jurisdiction |-> <<"User Upload">>,
         document_type |-> <<"user_upload">>,
         document_id |-> session_id \o <<"__chunk_", i>>,
         chunk_text |-> <<chunks[i + 1]>>])

\* line 142: int(md5(payload.url.encode()).hexdigest()[:8], 16), defined when url is a string
ChunkPointId(payload) == <<"md5[:8]">> \o payload.url.val

\* client.upsert of one sub-batch: a point with a known id is overwritten
Upsert(points, batch) ==
    [id \in DOMAIN points \cup {ChunkPointId(batch[j]) : j \in 1..Len(batch)} |->
        IF \E j \in 1..Len(batch) : ChunkPointId(batch[j]) = id
        THEN batch[CHOOSE j \in 1..Len(batch) :
                     /\ ChunkPointId(batch[j]) = id
                     /\ \A j2 \in (j + 1)..Len(batch) : ChunkPointId(batch[j2]) # id]
        ELSE points[id]]

\* lines 148-168: the sub-batches of INGEST_BATCH_SIZE payloads, upserted in order
RECURSIVE UpsertBatches(_, _)
UpsertBatches(points, payloads) ==
    IF payloads = <<>> THEN points
    ELSE UpsertBatches(Upsert(points, Take(payloads, INGEST_BATCH_SIZE)),
                       SubSeq(payloads, INGEST_BATCH_SIZE + 1, Len(payloads)))

\* SessionVectorStore.ingest_document on the points of the session collection:
\* whether it raised, what it returned and the points it leaves.  The loop of
\* lines 131-143 raises AttributeError at the first payload whose url is None,
\* before anything is upserted.
ingest_document(points, session_id, text, filename) ==
    LET chunks == split_text(text)
        payloads == [i \in 1..Len(chunks) |-> ChunkPayload(session_id, filename, chunks, i - 1)]
    IN  IF chunks = <<>>
        THEN [raised |-> FALSE, ret |-> 0, points |-> points]
        ELSE IF \E i \in 1..Len(payloads) : ~payloads[i].url.some
        THEN [raised |-> TRUE, ret |-> 0, points |-> points]
        ELSE [raised |-> FALSE, ret |-> Len(chunks),
              points |-> UpsertBatches(points, payloads)]

\* delete an entry of a mapping
Without(f, x) == [y \in DOMAIN f \ {x} |-> f[y]]
\* set an entry of a mapping
With(f, x, v) == [y \in DOMAIN f \cup {x} |-> IF y = x THEN v ELSE f[y]]

\* _store_in_db_for_rag: create_collection, then ingest_document, on the
\* collections of the vector store.  qdrant_ok = FALSE: the vector store fails
\* the calls (get_collection raises, create_collection raises).
_store_in_db_for_rag(colls, session_id, text, filename, qdrant_ok) ==
    LET name == get_session_collection_name(session_id)
    IN  IF ~qdrant_ok
        THEN [raised |-> TRUE, collections |-> colls, wrote |-> FALSE]
        ELSE LET colls1 == IF name \in DOMAIN colls THEN colls ELSE With(colls, name, <<>>)
                 r == ingest_document(colls1[name], session_id, text, filename)
             IN  [raised |-> r.raised,
                  collections |-> With(colls1, name, r.points),
                  wrote |-> TRUE]

\* SessionVectorStore.query lines 216-231: the dictionary built from the stored
\* payload p.dict(), whose keys are the declared fields:
\* payload.get("document_id", payload.get("url")) is the url
ChunkDict(payload) ==
    [section_title |-> payload.title, document_title |-> payload.feed_name,
     jurisdiction |-> payload.feed_author, document_type |-> payload.article_authors,
     document_id |-> payload.url, chunk_text |-> payload.chunk_text]

NoSessionQuery == [called |-> FALSE, session_id |-> <<>>, raised |-> FALSE,
                   ret |-> {}, writers |-> {}]

store_except_reraises(e) == [raised |-> TRUE]

\* store_uploaded_document lines 108-109: the failure of _store_in_db_for_rag
\* is logged as a warning and swallowed
store_except(e) == [raised |-> FALSE]

\* store_uploaded_document(session_id, text, filename) at time t: the record is
\* written, then the session collection is created and filled; a failure of
\* that part is logged and swallowed.  `writers` is the history kept in
\* collWriters: whose uploads have written to (created or ingested into) each
\* collection.
store_uploaded_document(upl, colls, writers, session_id, text, filename, t, qdrant_ok) ==
    LET name == get_session_collection_name(session_id)
        document_id == generate_document_id(session_id, filename, t)
        expires_at == t + DEFAULT_SESSION_EXPIRY
        r == _store_in_db_for_rag(colls, session_id, text, filename, qdrant_ok)
    IN  [uploaded |-> With(upl, session_id,
                           [document_id |-> document_id, text |-> text,
                            filename |-> filename, expires_at |-> expires_at]),
         collections |-> r.collections,
         collWriters |-> IF r.wrote
                         THEN With(writers, name,
                                   (IF name \in DOMAIN writers THEN writers[name] ELSE {})
                                       \cup {session_id})
                         ELSE writers,
         wrote |-> r.wrote,
         db_failed |-> r.raised,
         raised |-> IF r.raised THEN store_except("_store_in_db_for_rag").raised ELSE FALSE,
         ret |-> [session_id |-> session_id, document_id |-> document_id,
                  expires_at |-> expires_at]]

StoreUploadedDocument(session_id, text, filename, qdrant_ok) ==
    /\ nSessionOps < MaxSessionOps
    /\ LET r == store_uploaded_document(uploaded, collections, collWriters,
                                        session_id, text, filename, now, qdrant_ok)
       IN  /\ uploaded' = r.uploaded
           /\ collections' = r.collections
           /\ collWriters' = r.collWriters
           /\ collDoc' = IF r.wrote
                         THEN With(collDoc, get_session_collection_name(session_id), text)
                         ELSE collDoc
           /\ sessionCall' = [op |-> "store_uploaded_document", session_id |-> session_id,
                              t |-> now, loop_running |-> TRUE, raised |-> r.raised,
                              ret |-> IF r.raised THEN {} ELSE {r.ret}, deleted |-> FALSE,
                              before |-> uploaded, after |-> r.uploaded, started |-> 0,
                              db_failed |-> r.db_failed, changed |-> TRUE]
    /\ nSessionOps' = nSessionOps + 1
    /\ UNCHANGED <<now, deleteTasks, nDbDeletes, cleanup, sessionQuery, nonSessionVars>>

\* SessionVectorStore(session_id).query(query_text, limit): query_points raises
\* when the collection does not exist or the vector store is down; otherwise
\* the `limit` best points of the collection are returned as dictionaries
SessionQuery(session_id, qdrant_ok) ==
    /\ nSessionOps < MaxSessionOps
    /\ LET name == get_session_collection_name(session_id)
       IN  IF ~qdrant_ok \/ name \notin DOMAIN collections
           THEN sessionQuery' = [called |-> TRUE, session_id |-> session_id,
                                 raised |-> TRUE, ret |-> {}, writers |-> {}]
           ELSE \E ids \in SUBSET DOMAIN collections[name] :
                   /\ Cardinality(ids) = Min(SESSION_QUERY_LIMIT,
                                             Cardinality(DOMAIN collections[name]))
                   /\ sessionQuery' = [called |-> TRUE, session_id |-> session_id,
                                       raised |-> FALSE,
                                       ret |-> {ChunkDict(collections[name][id]) : id \in ids},
                                       writers |-> collWriters[name]]
    /\ nSessionOps' = nSessionOps + 1
    /\ UNCHANGED <<now, uploaded, collections, deleteTasks, collWriters, collDoc, nDbDeletes,
                 sessionCall, cleanup, nonSessionVars>>

\* a function without the arguments outside D
Restrict(f, D) == [x \in DOMAIN f \cap D |-> f[x]]

\* SessionVectorStore.delete_collection: raises when the vector store is down
\* or the collection does not exist
delete_collection(colls, session_id, qdrant_ok) ==
    LET name == get_session_collection_name(session_id)
    IN  IF qdrant_ok /\ name \in DOMAIN colls
        THEN [raised |-> FALSE, collections |-> Without(colls, name)]
        ELSE [raised |-> TRUE, collections |-> colls]

_delete_from_db_except_reraises(e) == [raised |-> TRUE]

\* _delete_from_db lines 222-223: the failure is logged and swallowed
_delete_from_db_except(e) == [raised |-> FALSE]

\* _delete_from_db(session_id)
_delete_from_db(colls, session_id, qdrant_ok) ==
    LET r == delete_collection(colls, session_id, qdrant_ok)
    IN  IF r.raised
        THEN [raised |-> _delete_from_db_except("delete_collection").raised,
              collections |-> colls, failed |-> TRUE]
        ELSE [raised |-> FALSE, collections |-> r.collections, failed |-> FALSE]

\* delete_session(session_id): False when the session is unknown; otherwise
\* the record is removed and _delete_from_db is started, as a task of the
\* running event loop (loop_running) or to completion by asyncio.run
delete_session(upl, colls, tasks, session_id, loop_running, qdrant_ok) ==
    IF session_id \notin DOMAIN upl
    THEN [raised |-> FALSE, ret |-> FALSE, uploaded |-> upl, collections |-> colls,
          deleteTasks |-> tasks, started |-> 0, db_failed |-> FALSE]
    ELSE IF loop_running
         THEN [raised |-> FALSE, ret |-> TRUE, uploaded |-> Without(upl, session_id),
               collections |-> colls, deleteTasks |-> Append(tasks, session_id),
               started |-> 1, db_failed |-> FALSE]
         ELSE LET r == _delete_from_db(colls, session_id, qdrant_ok)
              IN  [raised |-> r.raised, ret |-> ~r.raised,
                   uploaded |-> Without(upl, session_id),
                   collections |-> r.collections, deleteTasks |-> tasks, started |-> 1,
                   db_failed |-> r.failed]

is_expired_never(t, expires_at) == FALSE

\* get_uploaded_document line 161, cleanup_expired_sessions line 233:
\* datetime.now() > expires_at
is_expired(t, expires_at) == t > expires_at

\* get_uploaded_document(session_id) at time t
get_uploaded_document(upl, colls, tasks, session_id, t, loop_running, qdrant_ok) ==
    IF session_id \notin DOMAIN upl
    THEN [raised |-> FALSE, ret |-> Absent, uploaded |-> upl, collections |-> colls,
          deleteTasks |-> tasks, started |-> 0, db_failed |-> FALSE]
    ELSE IF is_expired(t, upl[session_id].expires_at)
         THEN LET r == delete_session(upl, colls, tasks, session_id, loop_running, qdrant_ok)
              IN  [raised |-> r.raised, ret |-> Absent, uploaded |-> r.uploaded,
                   collections |-> r.collections, deleteTasks |-> r.deleteTasks,
                   started |-> r.started, db_failed |-> r.db_failed]
         ELSE [raised |-> FALSE, ret |-> Some(upl[session_id]), uploaded |-> upl,
               collections |-> colls, deleteTasks |-> tasks, started |-> 0,
               db_failed |-> FALSE]

NoSessionCall == [op |-> "none", session_id |-> <<>>, t |-> 0, loop_running |-> TRUE,
                  raised |-> FALSE, ret |-> {}, deleted |-> FALSE, before |-> <<>>,
                  after |-> <<>>,
                  started |-> 0, db_failed |-> FALSE, changed |-> FALSE]

\* the state left by a call result r of delete_session / get_uploaded_document
\* on session_id, and the record of the call; ret is the set holding the
\* record returned by get_uploaded_document, empty for None, and deleted is
\* the value returned by delete_session
SessionCallDone(op, session_id, loop_running, r, ret, deleted) ==
    /\ uploaded' = r.uploaded
    /\ collections' = r.collections
    /\ deleteTasks' = r.deleteTasks
    /\ collWriters' = Restrict(collWriters, DOMAIN r.collections)
    /\ collDoc' = Restrict(collDoc, DOMAIN r.collections)
    /\ nDbDeletes' = [nDbDeletes EXCEPT ![session_id] = @ + r.started]
    /\ sessionCall' = [op |-> op, session_id |-> session_id, t |-> now,
                       loop_running |-> loop_running, raised |-> r.raised,
                       ret |-> IF r.raised THEN {} ELSE ret,
                       deleted |-> ~r.raised /\ deleted,
                       before |-> uploaded, after |-> r.uploaded, started |-> r.started,
                       db_failed |-> r.db_failed,
                       changed |-> <<r.uploaded, r.collections, r.deleteTasks>>
                                     # <<uploaded, collections, deleteTasks>>]

\* a call of delete_session(session_id): by the DELETE /session endpoint
\* (inside the running loop) or by a caller outside any running loop
DeleteSession(session_id, loop_running, qdrant_ok) ==
    /\ nSessionOps < MaxSessionOps
    /\ LET r == delete_session(uploaded, collections, deleteTasks, session_id,
                               loop_running, qdrant_ok)
       IN  SessionCallDone("delete_session", session_id, loop_running, r, {}, r.ret)
    /\ nSessionOps' = nSessionOps + 1
    /\ UNCHANGED <<now, cleanup, sessionQuery, nonSessionVars>>

\* a call of get_uploaded_document(session_id)
GetUploadedDocument(session_id, loop_running, qdrant_ok) ==
    /\ nSessionOps < MaxSessionOps
    /\ LET r == get_uploaded_document(uploaded, collections, deleteTasks, session_id, now,
                                      loop_running, qdrant_ok)
       IN  SessionCallDone("get_uploaded_document", session_id, loop_running, r,
                           IF r.ret.some THEN {r.ret.val} ELSE {}, FALSE)
    /\ nSessionOps' = nSessionOps + 1
    /\ UNCHANGED <<now, cleanup, sessionQuery, nonSessionVars>>

\* a scheduled _delete_from_db(session_id) runs
RunDeleteTask(i, qdrant_ok) ==
    /\ i \in 1..Len(deleteTasks)
    /\ LET r == _delete_from_db(collections, deleteTasks[i], qdrant_ok)
       IN  /\ collections' = r.collections
           /\ collWriters' = Restrict(collWriters, DOMAIN r.collections)
           /\ collDoc' = Restrict(collDoc, DOMAIN r.collections)
    /\ deleteTasks' = SubSeq(deleteTasks, 1, i - 1) \o SubSeq(deleteTasks, i + 1, Len(deleteTasks))
    /\ UNCHANGED <<now, uploaded, nDbDeletes, sessionCall, cleanup, sessionQuery, nSessionOps,
                   nonSessionVars>>

\* the orders in which the sessions of a set can be visited
Orders(S) ==
    {order \in [1..Cardinality(S) -> S] :
        \A i, j \in 1..Cardinality(S) : i # j => order[i] # order[j]}

\* cleanup_expired_sessions lines 236-237: delete_session on each collected
\* session in turn, inside the running loop
RECURSIVE delete_sessions(_, _, _, _)
delete_sessions(upl, colls, tasks, order) ==
    IF order = <<>>
    THEN [uploaded |-> upl, collections |-> colls, deleteTasks |-> tasks]
    ELSE LET r == delete_session(upl, colls, tasks, Head(order), TRUE, TRUE)
         IN  delete_sessions(r.uploaded, r.collections, r.deleteTasks, Tail(order))

cleanup_except_reraises(e) == [running |-> FALSE]

\* cleanup_expired_sessions lines 244-246: the failure of an iteration is
\* logged, the task sleeps and the loop goes on
cleanup_except(e) == [running |-> TRUE]

\* start_cleanup_task at application start-up: the task is running
NoCleanup == [running |-> TRUE, failures |-> 0, last_removed |-> {}]

\* one iteration of the while-True loop of cleanup_expired_sessions, between
\* two sleeps: the expired sessions are collected and deleted.  fails: an
\* exception is raised inside the iteration after the sessions of `done` have
\* been deleted; without one, every collected session is deleted.
CleanupIteration(done, fails) ==
    /\ cleanup.running
    /\ LET expired_sessions ==
               {session_id \in DOMAIN uploaded :
                   is_expired(now, uploaded[session_id].expires_at)}
       IN  /\ done \subseteq expired_sessions
           /\ ~fails => done = expired_sessions
           /\ fails => cleanup.failures < MaxSweepFailures
           /\ \E order \in Orders(done) :
                 LET r == delete_sessions(uploaded, collections, deleteTasks, order)
                 IN  /\ uploaded' = r.uploaded
                     /\ deleteTasks' = r.deleteTasks
                     /\ nDbDeletes' = [session_id \in SessionIds |->
                                          nDbDeletes[session_id]
                                              + (IF session_id \in done THEN 1 ELSE 0)]
    /\ cleanup' = [running |-> IF fails THEN cleanup_except("iteration").running ELSE TRUE,
                   failures |-> cleanup.failures + (IF fails THEN 1 ELSE 0),
                   last_removed |-> done]
    /\ UNCHANGED <<now, collections, collWriters, collDoc, sessionCall, sessionQuery,
                   nSessionOps, nonSessionVars>>

\* history of the last two cache operations
Logged(op) == IF Len(cacheOps) < 2 THEN Append(cacheOps, op) ELSE <<cacheOps[2], op>>

-----------------------------------------------------------------------------
(* Actions on the cache alone *)

CacheSet(text, analysis, language) ==
    /\ nCacheOps < MaxCacheOps
    /\ nCacheOps' = nCacheOps + 1
    /\ cache' = set_cached_analysis(cache, text, analysis, language, now)
    /\ cacheOps' = Logged([op |-> "set", text |-> text, language |-> language,
                           analysis |-> analysis, ret |-> Absent, at |-> now,
                           before |-> <<>>])
    /\ everSet' = everSet \cup {<<text, language>>}
    /\ UNCHANGED <<now, nonCacheVars>>

CacheGet(text, language) ==
    LET r == get_cached_analysis(cache, text, language, now)
    IN  /\ nCacheOps < MaxCacheOps
        /\ nCacheOps' = nCacheOps + 1
        /\ cache' = r.cache
        /\ cacheOps' = Logged([op |-> "get", text |-> text, language |-> language,
                               analysis |-> <<>>, ret |-> r.ret, at |-> now,
                               before |-> cache])
        /\ UNCHANGED <<now, everSet, nonCacheVars>>

\* clear_cache
ClearCache ==
    /\ cache # <<>>
    /\ cache' = <<>>
    /\ cacheOps' = <<>>
    /\ UNCHANGED <<now, everSet, nCacheOps, nonCacheVars>>

\* the wall clock moves on
Tick ==
    /\ now + TickHours <= MaxClock
    /\ now' = now + TickHours
    /\ UNCHANGED <<cache, cacheOps, everSet, nCacheOps, nonCacheVars>>

-----------------------------------------------------------------------------
(* The N-ATLaS provider (natlas_service, generation_service) *)

\* Python truthiness of a string
Truthy(str) == str # <<>>

BaseUrls == { <<>>, <<"https://llm.modal.run">> }

\* content of a streamed delta: None or "" against text
Deltas == { <<>>, <<"t1">> }

\* what the chat-completion endpoint does with one call: the call fails, or it
\* streams `deltas`, after which the connection breaks or the stream ends with
\* the finish reason `finish`
LLMBehaviours ==
    {[create |-> "fails", deltas |-> <<>>, breaks |-> FALSE, finish |-> "stop"]}
        \cup [create : {"ok"}, deltas : SeqUpTo(Deltas, MaxChunks),
              breaks : BOOLEAN, finish : {"stop", "length"}]

NatlasErrorChunk ==
    <<"__error__:", " Failed to connect to N-ATLaS LLM service. Please ensure the Modal service is deployed and running. Error: ", "detail">>
TruncatedChunk == <<"__truncated__">>

\* the except clause of stream_natlas that ends after re-raising
natlas_except_reraises(yielded) ==
    [raised |-> TRUE, called |-> TRUE, chunks |-> Append(yielded, NatlasErrorChunk)]

\* the except clause of stream_natlas (lines 128-133), entered after `yielded`:
\* one more chunk, the error message, and no re-raise
natlas_except(yielded) ==
    [raised |-> FALSE, called |-> TRUE, chunks |-> Append(yielded, NatlasErrorChunk)]

\* stream_natlas with a missing base URL reported as an error chunk
stream_natlas_reports_missing_url(base_url, llm) ==
    IF ~Truthy(base_url) \/ llm.create = "fails" THEN natlas_except(<<>>)
    ELSE LET yielded == SelectSeq(llm.deltas, Truthy)
         IN  IF llm.breaks THEN natlas_except(yielded)
             ELSE [raised |-> FALSE, called |-> TRUE,
                   chunks |-> yielded \o (IF llm.finish = "length" THEN <<TruncatedChunk>>
                                         ELSE <<>>)]

\* stream_natlas: the chunks a complete run yields, whether it ends by raising,
\* and whether the chat-completion endpoint was called
stream_natlas(base_url, llm) ==
    IF ~Truthy(base_url)
    THEN [raised |-> TRUE, called |-> FALSE, chunks |-> <<>>]    \* ValueError, lines 94-97
    ELSE IF llm.create = "fails" THEN natlas_except(<<>>)
    ELSE LET yielded == SelectSeq(llm.deltas, Truthy)
         IN  IF llm.breaks THEN natlas_except(yielded)
             ELSE [raised |-> FALSE, called |-> TRUE,
                   chunks |-> yielded \o (IF llm.finish = "length" THEN <<TruncatedChunk>>
                                         ELSE <<>>)]

\* get_streaming_function("natlas", ...)(): stream_gen relays stream_natlas
stream_gen(base_url, llm) == stream_natlas(base_url, llm)

NoNatlasRun == [invoked |-> FALSE, ended |-> FALSE, received |-> <<>>,
                llm |-> [create |-> "fails", deltas |-> <<>>, breaks |-> FALSE, finish |-> "stop"],
                res |-> [raised |-> FALSE, called |-> FALSE, chunks |-> <<>>]]

\* a consumer invokes the natlas streaming function (no other run is going on)
StreamNatlas(llm) ==
    /\ natlasRun.invoked => natlasRun.ended
    /\ natlasRun' = [invoked |-> TRUE, ended |-> FALSE, received |-> <<>>, llm |-> llm,
                     res |-> stream_gen(llm_base_url, llm)]
    /\ UNCHANGED <<cacheVars, searchVars, sessionVars, llm_base_url, stream, nUploads,
                   ingestVars, callVars>>

\* the consumer asks for the next chunk: it receives one, or the stream ends
\* (normally, or with the exception the generator raised)
NatlasNext ==
    /\ natlasRun.invoked /\ ~natlasRun.ended
    /\ natlasRun' =
          IF Len(natlasRun.received) < Len(natlasRun.res.chunks)
          THEN [natlasRun EXCEPT !.received =
                    Append(@, natlasRun.res.chunks[Len(natlasRun.received) + 1])]
          ELSE [natlasRun EXCEPT !.ended = TRUE]
    /\ UNCHANGED <<cacheVars, searchVars, sessionVars, llm_base_url, stream, nUploads,
                   ingestVars, callVars>>

-----------------------------------------------------------------------------
(* The upload-agreement stream: agreement_routes.stream_generator consuming  *)
(* legal_analysis_service.analyze_agreement_for_risks_stream.  An item of a  *)
(* stream is a string; its first token is its control prefix when it has one *)

\* what the form field session_id can hold
FormSessionIds == { Absent, Some(<<"c">>) }
\* generate_session_id(): str(uuid.uuid4())
generate_session_id == <<"uuid4">>
\* what extract_text_from_file returns when it returns
UploadTexts == { <<" ">>, <<"a">> }
UploadLanguages == { <<"en">> }
\* file.filename or "uploaded_agreement"
UploadFileNames == { <<"f", ".", "pdf">> }

\* search_queries, by label
Labels == <<"rights", "warnings", "procedures">>
\* what happens to one query_with_filters call under wait_for(..., timeout=15.0)
QueryOutcomes == { "returned", "raised", "timeout" }

\* str.capitalize() of a label
capitalize(label) ==
    CASE label = "rights" -> "Rights"
      [] label = "warnings" -> "Warnings"
      [] label = "procedures" -> "Procedures"

LoadingFromCache == <<"__progress__:", "Loading from cache...\n">>
StartingAnalysis == <<"__progress__:", "Starting analysis...\n">>
Analyzing(label) == <<"__progress__:", "Analyzing ", label, "...\n">>
Analyzed(label) == <<"__progress__:", "(check mark) ", capitalize(label), " analyzed\n">>
TimedOut(label) == <<"__progress__:", "(warning sign) ", capitalize(label), " timed out\n">>
Failed(label) == <<"__progress__:", "(warning sign) ", capitalize(label), " failed\n">>
GeneratingAnalysis == <<"__progress__:", "Generating analysis...\n">>
\* f"__error__: {str(e)}"
AnalysisError(detail) == <<"__error__:", " ", detail>>
BaseUrlNotConfigured == "N-ATLaS LLM base URL not configured. Please set MODAL__LLM_BASE_URL in .env"

\* the items of the route itself
NoTextError == <<"__error__:", " No text could be extracted from the uploaded file\n">>
AnalysisFailed(detail) == <<"__error__:", " Analysis failed: ", detail, "\n">>
UploadFailed(detail) == <<"__error__:", " Upload processing failed: ", detail, "\n">>
RouteStartingAnalysis == <<"Starting analysis...\n">>
\* f"__metadata__:{json.dumps(metadata)}\n"
MetadataItem(storage_result, filename) ==
    <<"__metadata__:", "{\"session_id\": ">> \o storage_result.session_id
        \o <<", \"document_id\": ">> \o storage_result.document_id
        \o <<", \"expires_at\": ", ToString(storage_result.expires_at), ", \"filename\": ">>
        \o filename \o <<"}\n">>

\* `not extracted_text.strip()` that never finds the text blank
is_blank_never(text) == FALSE

\* `not extracted_text.strip()`
is_blank(text) == \A i \in DOMAIN text : text[i] = " "

\* `if cached_analysis:` that never takes the cached value
cache_hit_never(cached) == FALSE

\* `if cached_analysis:` on the return value of get_cached_analysis
cache_hit(cached) == cached.some /\ Truthy(cached.val)

\* fetch_context under asyncio.wait_for: fetch_context turns every exception of
\* the query into (label, []), so wait_for ends with a result or with TimeoutError
wait_for_fetch_context(outcome) ==
    IF outcome = "timeout" THEN "TimeoutError" ELSE "result"

\* lines 73-87: the line that follows the query of `label`
LoopLine(label, ended) ==
    CASE ended = "result" -> Analyzed(label)
      [] ended = "TimeoutError" -> TimedOut(label)
      [] OTHER -> Failed(label)

\* the except clause of the generation that ends by re-raising
analysis_except_reraises(detail) == [items |-> <<AnalysisError(detail)>>, raised |-> TRUE]

\* lines 163-165: the except clause around the generation yields one item
analysis_except(detail) == [items |-> <<AnalysisError(detail)>>, raised |-> FALSE]

\* route lines 95-99: the except clause around the relay of the analysis
route_except_analysis(detail) == [items |-> <<AnalysisFailed(detail)>>, raised |-> FALSE]

\* route lines 101-104: the except clause around the whole generator body
route_except_upload(detail) == [items |-> <<UploadFailed(detail)>>, raised |-> FALSE]

\* route lines 91-92: `if chunk: yield chunk`
Relay(http, chunk) == IF Truthy(chunk) THEN Append(http, chunk) ELSE http

RECURSIVE RelayAll(_, _)
RelayAll(http, chunks) ==
    IF chunks = <<>> THEN http ELSE RelayAll(Relay(http, Head(chunks)), Tail(chunks))

NoStream ==
    [pc |-> "idle", session_id |-> <<>>, language |-> <<>>, filename |-> <<>>,
     extraction |-> "none", text |-> <<>>,
     http |-> <<>>,             \* the items of the response stream so far
     svc |-> <<>>,              \* the items analyze_agreement_for_risks_stream yielded so far
     svcRaised |-> FALSE,       \* the analysis generator ended by raising
     escaped |-> FALSE,         \* the route generator ended by raising
     cached |-> Absent,         \* what get_cached_analysis returned
     outcomes |-> <<>>,         \* what happened to the queries made so far
     reported |-> 0,            \* iterations done of the loop of lines 89-91
     pending |-> <<>>,          \* chunks the provider stream has yet to yield
     natlasRaised |-> FALSE,    \* the provider stream ends by raising
     full_analysis |-> <<>>,
     queries |-> 0, providerCalls |-> 0, cacheWrites |-> 0]

StreamUnchanged == UNCHANGED <<now, nCacheOps, searchVars, ingestVars, callVars, deleteTasks, nDbDeletes, sessionCall,
                               cleanup, sessionQuery, nSessionOps, llm_base_url, natlasRun>>
CacheUnchanged == UNCHANGED <<cache, cacheOps, everSet>>
StoreUnchanged == UNCHANGED <<uploaded, collections, collWriters, collDoc>>

\* a request arrives when none is being served
NewRequest(form_session_id, language) ==
    [NoStream EXCEPT !.session_id = IF form_session_id.some /\ Truthy(form_session_id.val)
                                    THEN form_session_id.val ELSE generate_session_id,
                     !.language = language]

CanStart == stream.pc \in {"idle", "done"} /\ nUploads < MaxUploads

\* extract_text_from_file raises: the outer except clause ends the stream
UploadExtractRaises(form_session_id, language) ==
    /\ CanStart
    /\ LET e == route_except_upload("extraction error")
       IN  stream' = [NewRequest(form_session_id, language) EXCEPT
                        !.pc = "done", !.extraction = "raised",
                        !.http = e.items, !.escaped = e.raised]
    /\ nUploads' = nUploads + 1
    /\ CacheUnchanged /\ StoreUnchanged /\ StreamUnchanged

\* the extracted text is blank: lines 57-59
UploadNoText(form_session_id, language, text) ==
    /\ CanStart
    /\ is_blank(text)
    /\ stream' = [NewRequest(form_session_id, language) EXCEPT
                    !.pc = "done", !.extraction = "text", !.text = text,
                    !.http = <<NoTextError>>]
    /\ nUploads' = nUploads + 1
    /\ CacheUnchanged /\ StoreUnchanged /\ StreamUnchanged

\* text was extracted: the document is stored and the metadata line is yielded
UploadStored(form_session_id, language, text, filename, qdrant_ok) ==
    /\ CanStart
    /\ ~is_blank(text)
    /\ LET req == NewRequest(form_session_id, language)
           r == store_uploaded_document(uploaded, collections, collWriters,
                                        req.session_id, text, filename, now, qdrant_ok)
       IN  /\ uploaded' = r.uploaded
           /\ collections' = r.collections
           /\ collWriters' = r.collWriters
           /\ collDoc' = IF r.wrote
                         THEN With(collDoc, get_session_collection_name(req.session_id), text)
                         ELSE collDoc
           /\ stream' = [req EXCEPT !.pc = "route_starting", !.extraction = "text",
                                    !.text = text, !.filename = filename,
                                    !.http = <<MetadataItem(r.ret, filename)>>]
    /\ nUploads' = nUploads + 1
    /\ CacheUnchanged /\ StreamUnchanged

\* route line 81
RouteStarting ==
    /\ stream.pc = "route_starting"
    /\ stream' = [stream EXCEPT !.pc = "lookup", !.http = Append(@, RouteStartingAnalysis)]
    /\ UNCHANGED nUploads
    /\ CacheUnchanged /\ StoreUnchanged /\ StreamUnchanged

\* lines 33-36: the cache is consulted and holds a usable analysis
AnalysisCacheHit ==
    /\ stream.pc = "lookup"
    /\ LET r == get_cached_analysis(cache, stream.text, stream.language, now)
       IN  /\ cache_hit(r.ret)
           /\ cache' = r.cache
           /\ cacheOps' = Logged([op |-> "get", text |-> stream.text,
                                  language |-> stream.language, analysis |-> <<>>,
                                  ret |-> r.ret, at |-> now, before |-> cache])
           /\ stream' = [stream EXCEPT !.pc = "cache_yield", !.cached = r.ret,
                                       !.svc = Append(@, LoadingFromCache),
                                       !.http = Relay(@, LoadingFromCache)]
    /\ UNCHANGED <<everSet, nUploads>>
    /\ StoreUnchanged /\ StreamUnchanged

\* lines 37-38: the cached text is yielded and the generator returns
AnalysisYieldCached ==
    /\ stream.pc = "cache_yield"
    /\ stream' = [stream EXCEPT !.pc = "done",
                                !.svc = Append(@, stream.cached.val),
                                !.http = Relay(@, stream.cached.val)]
    /\ UNCHANGED nUploads
    /\ CacheUnchanged /\ StoreUnchanged /\ StreamUnchanged

\* lines 33-45: no usable cached analysis
AnalysisCacheMiss ==
    /\ stream.pc = "lookup"
    /\ LET r == get_cached_analysis(cache, stream.text, stream.language, now)
       IN  /\ ~cache_hit(r.ret)
           /\ cache' = r.cache
           /\ cacheOps' = Logged([op |-> "get", text |-> stream.text,
                                  language |-> stream.language, analysis |-> <<>>,
                                  ret |-> r.ret, at |-> now, before |-> cache])
           /\ stream' = [stream EXCEPT !.pc = "loop", !.cached = r.ret,
                                       !.svc = Append(@, StartingAnalysis),
                                       !.http = Relay(@, StartingAnalysis)]
    /\ UNCHANGED <<everSet, nUploads>>
    /\ StoreUnchanged /\ StreamUnchanged

\* line 72
AnalysisAnalyzing ==
    /\ stream.pc = "loop"
    /\ LET label == Labels[Len(stream.outcomes) + 1]
       IN  stream' = [stream EXCEPT !.pc = "query",
                                    !.svc = Append(@, Analyzing(label)),
                                    !.http = Relay(@, Analyzing(label))]
    /\ UNCHANGED nUploads
    /\ CacheUnchanged /\ StoreUnchanged /\ StreamUnchanged

\* lines 73-87: the query of the current label is made and its line yielded
AnalysisQuery(outcome) ==
    /\ stream.pc = "query"
    /\ LET label == Labels[Len(stream.outcomes) + 1]
           line == LoopLine(label, wait_for_fetch_context(outcome))
       IN  stream' = [stream EXCEPT
                        !.pc = IF Len(stream.outcomes) + 1 = Len(Labels) THEN "report" ELSE "loop",
                        !.outcomes = Append(@, outcome),
                        !.queries = @ + 1,
                        !.svc = Append(@, line),
                        !.http = Relay(@, line)]
    /\ UNCHANGED nUploads
    /\ CacheUnchanged /\ StoreUnchanged /\ StreamUnchanged

\* lines 89-91: one line per entry of `results`
AnalysisReport ==
    /\ stream.pc = "report"
    /\ LET line == Analyzed(Labels[stream.reported + 1])
       IN  stream' = [stream EXCEPT
                        !.pc = IF stream.reported + 1 = Len(stream.outcomes) THEN "prompt"
                               ELSE "report",
                        !.reported = @ + 1,
                        !.svc = Append(@, line),
                        !.http = Relay(@, line)]
    /\ UNCHANGED nUploads
    /\ CacheUnchanged /\ StoreUnchanged /\ StreamUnchanged

\* lines 93-140: the prompt is built
AnalysisPrompt ==
    /\ stream.pc = "prompt"
    /\ stream' = [stream EXCEPT !.pc = "generate",
                                !.svc = Append(@, GeneratingAnalysis),
                                !.http = Relay(@, GeneratingAnalysis)]
    /\ UNCHANGED nUploads
    /\ CacheUnchanged /\ StoreUnchanged /\ StreamUnchanged

\* line 112 raises on a retrieved context without text (ctx.chunk_text[:500]):
\* the analysis generator raises and the route's inner except clause answers
AnalysisPromptRaises ==
    /\ stream.pc = "prompt"
    /\ \E i \in DOMAIN stream.outcomes : stream.outcomes[i] = "returned"
    /\ LET e == route_except_analysis("'NoneType' object is not subscriptable")
       IN  stream' = [stream EXCEPT !.pc = "done", !.svcRaised = TRUE,
                                    !.http = @ \o e.items, !.escaped = e.raised]
    /\ UNCHANGED nUploads
    /\ CacheUnchanged /\ StoreUnchanged /\ StreamUnchanged

\* how the stream ends when the generation part is left through its except clause
EndByExcept(detail) ==
    LET e == analysis_except(detail)
        r == route_except_analysis(detail)
    IN  [stream EXCEPT !.pc = "done",
                       !.svc = @ \o e.items,
                       !.svcRaised = e.raised,
                       !.http = RelayAll(@, e.items) \o (IF e.raised THEN r.items ELSE <<>>),
                       !.escaped = e.raised /\ r.raised]

\* lines 145-146 and 163-165: no base URL is configured
AnalysisNoBaseUrl ==
    /\ stream.pc = "generate"
    /\ ~Truthy(llm_base_url)
    /\ stream' = EndByExcept(BaseUrlNotConfigured)
    /\ UNCHANGED nUploads
    /\ CacheUnchanged /\ StoreUnchanged /\ StreamUnchanged

\* lines 148-156: the streaming function is obtained and invoked
AnalysisGenerate(llm) ==
    /\ stream.pc = "generate"
    /\ Truthy(llm_base_url)
    /\ LET r == stream_gen(llm_base_url, llm)
       IN  stream' = [stream EXCEPT !.pc = "relay",
                                    !.pending = r.chunks,
                                    !.natlasRaised = r.raised,
                                    !.providerCalls = @ + (IF r.called THEN 1 ELSE 0)]
    /\ UNCHANGED nUploads
    /\ CacheUnchanged /\ StoreUnchanged /\ StreamUnchanged

\* lines 156-158: one chunk is accumulated and yielded
AnalysisRelay ==
    /\ stream.pc = "relay"
    /\ stream.pending # <<>>
    /\ LET chunk == Head(stream.pending)
       IN  stream' = [stream EXCEPT !.pending = Tail(@),
                                    !.full_analysis = @ \o chunk,
                                    !.svc = Append(@, chunk),
                                    !.http = Relay(@, chunk)]
    /\ UNCHANGED nUploads
    /\ CacheUnchanged /\ StoreUnchanged /\ StreamUnchanged

\* the provider stream has ended.  Lines 160-161: the analysis is cached;
\* lines 163-165 when the provider stream ended by raising
AnalysisEnd ==
    /\ stream.pc = "relay"
    /\ stream.pending = <<>>
    /\ IF stream.natlasRaised
       THEN /\ stream' = EndByExcept("provider error")
            /\ CacheUnchanged
       ELSE /\ cache' = set_cached_analysis(cache, stream.text, stream.full_analysis,
                                            stream.language, now)
            /\ cacheOps' = Logged([op |-> "set", text |-> stream.text,
                                   language |-> stream.language,
                                   analysis |-> stream.full_analysis, ret |-> Absent,
                                   at |-> now, before |-> <<>>])
            /\ everSet' = everSet \cup {<<stream.text, stream.language>>}
            /\ stream' = [stream EXCEPT !.pc = "done", !.cacheWrites = @ + 1]
    /\ UNCHANGED nUploads
    /\ StoreUnchanged /\ StreamUnchanged

\* time passes between two requests
TickBetweenRequests ==
    /\ stream.pc = "done"
    /\ nUploads < MaxUploads
    /\ Tick

-----------------------------------------------------------------------------
(* The relational ingestion pipeline (ingest_document, extract_pdf,           *)
(* batch_document_ingestion_flow)                                             *)

\* settings.document.batch_size
DOCUMENT_BATCH_SIZE == 5

\* the fields ArticleItem declares
ArticleItemFields == {"feed_name", "feed_author", "title", "url", "content"}

\* ArticleItem(**kwargs): a pydantic model keeps the declared fields, gives
\* the others their default "" and ignores every keyword it does not declare
ArticleItem(kwargs) ==
    [f \in ArticleItemFields |-> IF f \in DOMAIN kwargs THEN kwargs[f] ELSE ""]

\* obj.name: AttributeError for a name the object does not have
getattr(obj, name) ==
    IF name \in DOMAIN obj
    THEN [raised |-> FALSE, val |-> obj[name]]
    ELSE [raised |-> TRUE, val |-> ""]

\* the mapped columns of LegalDocument a caller can set
LegalDocumentColumns ==
    {"feed_name", "feed_author", "article_authors", "title", "url", "content", "published_at"}

\* the keywords _persist_batch passes to document_model(...), each read from
\* the attribute of that name of the item
PersistKwargs ==
    {"document_title", "jurisdiction", "section_title", "document_id", "content",
     "document_type", "effective_date"}

\* the document ids of the configuration entries
ConfigDocumentIds == {"d1", "d2"}

\* create_document_items_from_pdf lines 100-108: the item built for a PDF
PdfItem(document_id) ==
    ArticleItem([document_title |-> "title", jurisdiction |-> "state",
                 section_title |-> "title", document_id |-> document_id,
                 content |-> "text"])

\* the item of a document a caller of ingest_documents hands over: built as
\* create_document_items_from_pdf builds it, or with the declared field url
ItemOf(document_id, built_with) ==
    IF built_with = "document_id"
    THEN PdfItem(document_id)
    ELSE ArticleItem([url |-> document_id, content |-> "text"])

\* _persist_batch followed by session.commit(): the rows are built from the
\* attributes of each item and inserted; on any failure (an attribute or a
\* keyword that does not exist, a row whose url is taken, the database
\* failing) nothing of the batch is kept: session.rollback()
_persist_batch(rows_before, batch, db_ok) ==
    IF \E i \in DOMAIN batch : \E name \in PersistKwargs : getattr(batch[i], name).raised
    THEN [raised |-> TRUE, table |-> rows_before]
    ELSE IF ~(PersistKwargs \subseteq LegalDocumentColumns)
    THEN [raised |-> TRUE, table |-> rows_before]
    ELSE LET rows == {[url |-> getattr(batch[i], "document_id").val,
                       content |-> getattr(batch[i], "content").val] : i \in DOMAIN batch}
         IN  IF \/ ~db_ok
                \/ Cardinality(rows) # Len(batch)
                \/ \E row \in rows, old \in rows_before : row.url = old.url
             THEN [raised |-> TRUE, table |-> rows_before]
             ELSE [raised |-> FALSE, table |-> rows_before \cup rows]

\* the end of ingest_documents, lines 88-102: the aggregate error when a
\* batch failed
IngestEnd(rows, errors, attempted) ==
    [raised |-> errors # <<>>,
     error |-> IF errors # <<>> THEN "RuntimeError" ELSE "none",
     table |-> rows, errors |-> errors, attempted |-> attempted]

\* ingest_documents lines 50-86 from the i-th item on.  db_fails names the
\* batches whose insert the database refuses.
RECURSIVE IngestLoop(_, _, _, _, _, _, _, _)
IngestLoop(rows, document_items, i, batch, errors, attempted, skip_existing, db_fails) ==
    IF i > Len(document_items)
    THEN IF batch # <<>>
         THEN LET p == _persist_batch(rows, batch, "Final batch" \notin db_fails)
              IN  IngestEnd(p.table,
                            IF p.raised THEN Append(errors, "Final batch") ELSE errors,
                            attempted + 1)
         ELSE IngestEnd(rows, errors, attempted)
    ELSE LET document == document_items[i]
             document_id == getattr(document, "document_id")
         IN  IF skip_existing /\ document_id.raised
             THEN [raised |-> TRUE, error |-> "AttributeError", table |-> rows,
                   errors |-> errors, attempted |-> attempted]
             ELSE IF skip_existing /\ "document_id" \notin LegalDocumentColumns
             THEN [raised |-> TRUE, error |-> "InvalidRequestError", table |-> rows,
                   errors |-> errors, attempted |-> attempted]
             ELSE IF skip_existing /\ \E row \in rows : row.url = document_id.val
             THEN IngestLoop(rows, document_items, i + 1, batch, errors, attempted,
                             skip_existing, db_fails)
             ELSE LET batch1 == Append(batch, document)
                      batch_num == ToString(i \div DOCUMENT_BATCH_SIZE)
                  IN  IF Len(batch1) >= DOCUMENT_BATCH_SIZE
                      THEN LET p == _persist_batch(rows, batch1, batch_num \notin db_fails)
                           IN  IngestLoop(p.table, document_items, i + 1, <<>>,
                                          IF p.raised THEN Append(errors, batch_num)
                                                      ELSE errors,
                                          attempted + 1, skip_existing, db_fails)
                      ELSE IngestLoop(rows, document_items, i + 1, batch1, errors,
                                      attempted, skip_existing, db_fails)

\* ingest_documents(document_items, document_model, engine, skip_existing):
\* the session is closed on the way out (finally, lines 100-101)
ingest_documents(rows, document_items, skip_existing, db_fails) ==
    LET r == IngestLoop(rows, document_items, 1, <<>>, <<>>, 0, skip_existing, db_fails)
    IN  [raised |-> r.raised, error |-> r.error, table |-> r.table, errors |-> r.errors,
         attempted |-> r.attempted, closed |-> TRUE]

NoIngestRun == [called |-> FALSE, runs |-> 0, ids |-> <<>>, skip_existing |-> TRUE, db_fails |-> {},
                before |-> {}, raised |-> FALSE, error |-> "none", errors |-> <<>>,
                attempted |-> 0, closed |-> FALSE]

\* the lists of at most MaxItems document ids handed over: k times the
\* document d1, then the document d2
IdLists ==
    {[i \in 1..n |-> IF i <= k THEN "d1" ELSE "d2"] : n \in 0..MaxItems, k \in 0..MaxItems}

\* a direct run of the task ingest_documents on the items of the documents ids
IngestDocuments(ids, built_with, skip_existing, db_fails) ==
    /\ ingestRun.runs < MaxRuns
    /\ LET r == ingest_documents(table, [i \in DOMAIN ids |-> ItemOf(ids[i], built_with)],
                                 skip_existing, db_fails)
       IN  /\ table' = r.table
           /\ ingestRun' = [called |-> TRUE, runs |-> ingestRun.runs + 1, ids |-> ids,
                            skip_existing |-> skip_existing, db_fails |-> db_fails,
                            before |-> table, raised |-> r.raised, error |-> r.error,
                            errors |-> r.errors, attempted |-> r.attempted,
                            closed |-> r.closed]
    /\ UNCHANGED <<flow, docFlow, nonIngestVars>>

\* what happens to one entry of the configuration: its PDF is missing, the
\* extraction raises, the PDF has no text, or an item is built and ingested
EntryOutcomes == {"missing_pdf", "extract_raises", "no_items", "items"}

entry_except_reraises(e) == [raised |-> TRUE, failed |-> 0]

\* batch_document_ingestion_flow lines 101-104: the failure of an entry is
\* logged and counted, and the loop continues
entry_except(e) == [raised |-> FALSE, failed |-> 1]

\* one pass of the loop body, lines 56-104, on an entry with the given
\* outcome: what it adds to the counters, whether an exception leaves the
\* loop, and the table after it
FlowEntryResult(rows, document_id, outcome) ==
    IF outcome \in {"missing_pdf", "no_items"}
    THEN [raised |-> FALSE, successful |-> 0, failed |-> 1, table |-> rows]
    ELSE IF outcome = "extract_raises"
    THEN LET h == entry_except("create_document_items_from_pdf")
         IN  [raised |-> h.raised, successful |-> 0, failed |-> h.failed, table |-> rows]
    ELSE LET r == ingest_documents(rows, <<PdfItem(document_id)>>, TRUE, {})
             h == entry_except("ingest_documents")
         IN  IF r.raised
             THEN [raised |-> h.raised, successful |-> 0, failed |-> h.failed,
                   table |-> r.table]
             ELSE [raised |-> FALSE, successful |-> 1, failed |-> 0, table |-> r.table]

NoFlow == [pc |-> "idle", total |-> 0, idx |-> 1, successful |-> 0, failed |-> 0,
           outcomes |-> <<>>, raised |-> FALSE, disposed |-> FALSE]

\* lines 42-52: the flow starts with `total` configuration entries; without
\* any it returns at once
FlowStart(total) ==
    /\ flow.pc = "idle"
    /\ flow' = [flow EXCEPT !.pc = IF total = 0 THEN "done" ELSE "loop", !.total = total]
    /\ UNCHANGED <<table, ingestRun, docFlow, nonIngestVars>>

\* lines 55-104: the entry idx is processed
FlowEntry(document_id, outcome) ==
    /\ flow.pc = "loop"
    /\ LET r == FlowEntryResult(table, document_id, outcome)
       IN  /\ table' = r.table
           /\ flow' = [flow EXCEPT
                         !.outcomes = Append(@, outcome),
                         !.successful = @ + r.successful,
                         !.failed = @ + r.failed,
                         !.idx = @ + 1,
                         !.raised = r.raised,
                         !.disposed = r.raised,
                         !.pc = IF r.raised THEN "done"
                                ELSE IF flow.idx = flow.total THEN "summary" ELSE "loop"]
    /\ UNCHANGED <<ingestRun, docFlow, nonIngestVars>>

\* lines 106-127: the summary, the aggregate error when an entry failed
\* (wrapped by the outer except clause), and engine.dispose()
FlowSummary ==
    /\ flow.pc = "summary"
    /\ flow' = [flow EXCEPT !.pc = "done", !.raised = flow.failed > 0, !.disposed = TRUE]
    /\ UNCHANGED <<table, ingestRun, docFlow, nonIngestVars>>

NoDocFlow == [pc |-> "idle", outcome |-> "none", raised |-> FALSE, disposed |-> FALSE]

\* document_ingestion_flow lines 53-93 on a PDF with the given outcome: a
\* missing PDF and a failing extraction raise out of
\* create_document_items_from_pdf, a PDF without text makes the flow return at
\* line 71, otherwise the item is ingested; every exception is wrapped at
\* lines 88-90, and the engine is disposed in the finally clause
DocumentIngestionFlow(document_id, outcome) ==
    /\ docFlow.pc = "idle"
    /\ LET r == IF outcome = "items"
                THEN ingest_documents(table, <<PdfItem(document_id)>>, TRUE, {})
                ELSE [raised |-> outcome \in {"missing_pdf", "extract_raises"},
                      table |-> table]
       IN  /\ table' = r.table
           /\ docFlow' = [pc |-> "done", outcome |-> outcome, raised |-> r.raised,
                          disposed |-> TRUE]
    /\ UNCHANGED <<ingestRun, flow, nonIngestVars>>

-----------------------------------------------------------------------------
(* The report service (report_service) *)

\* the three finding markers of the analysis prompt, glyph included; each
\* holds the phrase that _parse_analysis_sections looks for
RightsMarker == "Your Right:"
WarningMarker == "Warning Found:"
PredatoryMarker == "Predatory clause detected:"

\* the tokens that contain the phrase
TokensWith(phrase) ==
    IF phrase = "Your Right" THEN {RightsMarker}
    ELSE IF phrase = "Warning Found" THEN {WarningMarker}
    ELSE IF phrase = "Predatory clause" THEN {PredatoryMarker}
    ELSE IF phrase = "Introduction" THEN {"Introduction"}
    ELSE {}

\* phrase in line
Contains(line, phrase) == \E i \in DOMAIN line : line[i] \in TokensWith(phrase)

\* line.startswith(prefix)
StartsWith(line, prefix) == line # <<>> /\ line[1] = prefix

\* line.strip(): white space removed at both ends
RECURSIVE strip(_)
strip(line) ==
    IF line = <<>> THEN <<>>
    ELSE IF Head(line) = " " THEN strip(Tail(line))
    ELSE IF line[Len(line)] = " " THEN strip(SubSeq(line, 1, Len(line) - 1))
    ELSE line

\* the lines of an analysis text: blank lines, plain lines, marker lines
\* (also indented, and one that names another marker's phrase) and a line
\* that starts an introduction
AnalysisLines ==
    { <<>>, <<" ">>, <<"text">>,
      <<RightsMarker, "text">>, <<WarningMarker, "text">>, <<PredatoryMarker, "text">>,
      <<" ", RightsMarker, "text">>, <<"Based on", "text">> }

AnalysisTexts == UNION {[1..n -> AnalysisLines] : n \in 0..MaxLines}

\* _parse_analysis_sections lines 64-79 from the i-th line on
RECURSIVE ParseLines(_, _, _, _)
ParseLines(lines, i, current_section, sections) ==
    IF i > Len(lines) THEN sections
    ELSE LET line == strip(lines[i])
         IN  IF line = <<>>
             THEN ParseLines(lines, i + 1, current_section, sections)
             ELSE LET section ==
                          IF Contains(line, "Your Right") THEN "rights"
                          ELSE IF Contains(line, "Warning Found") THEN "warnings"
                          ELSE IF Contains(line, "Predatory clause") THEN "predatory"
                          ELSE IF StartsWith(line, "Based on") \/ Contains(line, "Introduction")
                          THEN "intro"
                          ELSE current_section
                  IN  ParseLines(lines, i + 1, section,
                                 [sections EXCEPT ![section] = Append(@, line)])

\* _parse_analysis_sections(analysis_text)
_parse_analysis_sections(analysis_text) ==
    ParseLines(analysis_text, 1, "intro",
               [intro |-> <<>>, rights |-> <<>>, warnings |-> <<>>, predatory |-> <<>>,
                other |-> <<>>])

\* one section of the text report, lines 101-129: nothing for an empty bucket
TextSection(header, bucket) ==
    IF bucket = <<>> THEN <<>> ELSE <<<<header>>, <<"-">>>> \o bucket \o << <<>> >>

\* _generate_text_report: the lines of the report
_generate_text_report(sections) ==
    << <<"=">>, <<"LAUYAMI LEGAL ANALYSIS SUMMARY REPORT">>, <<"=">> >>
        \o TextSection("INTRODUCTION", sections.intro)
        \o TextSection("YOUR RIGHTS", sections.rights)
        \o TextSection("WARNINGS", sections.warnings)
        \o TextSection("PREDATORY CLAUSES DETECTED", sections.predatory)
        \o TextSection("ADDITIONAL INFORMATION", sections.other)
        \o << <<"=">>, <<"End of Report">>, <<"=">> >>

\* _generate_json_report: the summary block
_generate_json_report(sections) ==
    [total_rights |-> Len(sections.rights),
     total_warnings |-> Len(sections.warnings),
     total_predatory_clauses |-> Len(sections.predatory)]

NoReportCall == [called |-> FALSE, analysis_text |-> <<>>, sections |-> <<>>,
                 text |-> <<>>, summary |-> <<>>]

\* generate_summary_report(analysis_text, document_filename, session_id)
GenerateSummaryReport(analysis_text) ==
    /\ LET sections == _parse_analysis_sections(analysis_text)
       IN  reportCall' = [called |-> TRUE, analysis_text |-> analysis_text,
                          sections |-> sections,
                          text |-> _generate_text_report(sections),
                          summary |-> _generate_json_report(sections)]
    /\ UNCHANGED <<nonCallVars, promptCall, analysisRuns, ingestCall, cleanupTask>>

-----------------------------------------------------------------------------
(* The prompt handed to the provider: prompts.py, generation_service.py *)

PromptLanguages == {"en", "yo", "ha", "ig", "fr"}
LanguageNames == {"English", "Yoruba", "Hausa", "Igbo"}

\* build_research_prompt: language_names.get(language, "English")
language_names(language) ==
    CASE language = "en" -> "English"
      [] language = "yo" -> "Yoruba"
      [] language = "ha" -> "Hausa"
      [] language = "ig" -> "Igbo"
      [] OTHER -> "English"

\* the phrases of PROMPT that are followed by {language_name}
Directives == {"You MUST respond in", "All your output must be in",
               "Respond entirely in", "Final Answer in", "Please respond in"}

\* PROMPT.format(query, context_texts, tokens, language_name); the context
\* documents and the token limit carry no language and are one token
PROMPT(query, language_name) ==
    <<"You MUST respond in", language_name, "All your output must be in", language_name,
      "Output Rules", "Respond entirely in", language_name, "Query">>
        \o query \o <<"Context Documents", "Final Answer in", language_name>>

\* build_research_prompt(contexts, query, tokens, language = "en")
build_research_prompt(query, language) == PROMPT(query, language_names(language))

\* the parameters get_streaming_function declares
StreamingParameters == {"provider", "query", "contexts", "selected_model"}

\* get_streaming_function(**kwargs): a keyword it does not declare is a
\* TypeError at the call; the prompt is built without a language, so with the
\* default "en"; stream_gen hands the prompt to the provider, and raises for an
\* unknown provider
get_streaming_function(kwargs) ==
    IF ~(DOMAIN kwargs \subseteq StreamingParameters)
    THEN [raised |-> "TypeError", prompt |-> <<>>, sent |-> FALSE]
    ELSE LET prompt == build_research_prompt(kwargs.query, "en")
         IN  IF kwargs.provider \in {"openai", "natlas"}
             THEN [raised |-> "none", prompt |-> prompt, sent |-> TRUE]
             ELSE [raised |-> "ValueError", prompt |-> prompt, sent |-> FALSE]

\* analyze_agreement_for_risks_stream: the analysis prompt, which ends with
\* its own language line
analysis_prompt(agreement_text, language) ==
    <<"Analyze this tenancy agreement">> \o agreement_text
        \o <<"Please respond in",
             CASE language = "yo" -> "Yoruba"
               [] language = "ha" -> "Hausa"
               [] language = "ig" -> "Igbo"
               [] OTHER -> "English">>

PromptWords == {"rent", "notice"}
PromptTexts == {<<>>} \cup {<<w>> : w \in PromptWords}
                  \cup {<<v, w>> : v \in PromptWords, w \in PromptWords}
AskProviders == {"openai", "natlas", "other"}

NoPromptCall == [kind |-> "none", language |-> "en", text |-> <<>>, provider |-> "natlas",
                 raised |-> "none", prompt |-> <<>>, sent |-> FALSE]

PromptCallDone(kind, language, text, provider, r) ==
    /\ promptCall' = [kind |-> kind, language |-> language, text |-> text,
                      provider |-> provider, raised |-> r.raised, prompt |-> r.prompt,
                      sent |-> r.sent]
    /\ UNCHANGED <<nonCallVars, reportCall, analysisRuns, ingestCall, cleanupTask>>

\* ask_with_generation_stream: the call of get_streaming_function
AskWithGenerationStream(provider, query_text, language) ==
    PromptCallDone("ask", language, query_text, provider,
                   get_streaming_function(
                       [provider |-> provider, query |-> query_text, contexts |-> <<>>,
                        selected_model |-> "none", language |-> language]))

\* analyze_agreement_for_risks_stream: the call of get_streaming_function
AnalysisStreamingFunction(agreement_text, language) ==
    PromptCallDone("upload", language, agreement_text, "natlas",
                   get_streaming_function(
                       [provider |-> "natlas",
                        query |-> analysis_prompt(agreement_text, language),
                        contexts |-> <<>>]))

-----------------------------------------------------------------------------
(* The retrieval loop of analyze_agreement_for_risks_stream (lines 47-87),  *)
(* one run per request being served on the event loop                       *)

RequestIds == 1..MaxRequests

\* asyncio.wait_for that, on timeout, raises without cancelling the task
wait_for_abandons(in_flight, label, outcome) ==
    IF outcome = "timeout" THEN in_flight ELSE in_flight \ {label}

\* await asyncio.wait_for(fetch_context(query_info), timeout=15.0): the tasks
\* of the run still in flight when the await ends.  fetch_context has returned
\* (with the contexts, or with [] after an exception of the query), or the
\* timeout has cancelled it and wait_for has awaited the cancellation
wait_for(in_flight, label, outcome) == in_flight \ {label}

NoAnalysisRun == [pc |-> "idle", issued |-> 0, in_flight |-> {}, results |-> <<>>,
                  overlap |-> FALSE]

\* a cache-miss run reaches the loop of line 70
AnalysisLoopStart(r) ==
    /\ analysisRuns[r].pc = "idle"
    /\ analysisRuns' = [analysisRuns EXCEPT ![r].pc = "loop"]
    /\ UNCHANGED <<nonCallVars, reportCall, promptCall, ingestCall, cleanupTask>>

\* lines 72-75: the next sub-query is issued and the generator awaits it
SubQueryIssued(r) ==
    /\ analysisRuns[r].pc = "loop"
    /\ LET label == Labels[analysisRuns[r].issued + 1]
       IN  analysisRuns' = [analysisRuns EXCEPT
                              ![r].pc = "awaiting",
                              ![r].issued = @ + 1,
                              ![r].overlap = @ \/ analysisRuns[r].in_flight # {},
                              ![r].in_flight = @ \cup {label}]
    /\ UNCHANGED <<nonCallVars, reportCall, promptCall, ingestCall, cleanupTask>>

\* lines 74-87: the await ends, the result of the sub-query is appended
SubQueryEnded(r, outcome) ==
    /\ analysisRuns[r].pc = "awaiting"
    /\ LET label == Labels[analysisRuns[r].issued]
       IN  analysisRuns' = [analysisRuns EXCEPT
                              ![r].pc = IF analysisRuns[r].issued = Len(Labels)
                                        THEN "report" ELSE "loop",
                              ![r].in_flight = wait_for(@, label, outcome),
                              ![r].results = Append(@, <<label, outcome>>)]
    /\ UNCHANGED <<nonCallVars, reportCall, promptCall, ingestCall, cleanupTask>>

-----------------------------------------------------------------------------
(* SessionVectorStore.ingest_document called directly *)

\* texts of 0..MaxTextChunks chunk-sized blocks, with or without white space
\* in front
ChunkedTexts ==
    UNION {{[i \in 1..k |-> "a"], <<" ">> \o [i \in 1..k |-> "a"]} : k \in 0..MaxTextChunks}

\* lines 148-152: the sub-batches of the payloads, each with its point ids
RECURSIVE SubBatches(_)
SubBatches(payloads) ==
    IF payloads = <<>> THEN <<>>
    ELSE <<[j \in 1..Min(INGEST_BATCH_SIZE, Len(payloads)) |->
               [id |-> ChunkPointId(payloads[j]), payload |-> payloads[j]]]>>
            \o SubBatches(SubSeq(payloads, INGEST_BATCH_SIZE + 1, Len(payloads)))

\* the calls of client.upsert a run of ingest_document makes, in order: none
\* when it returns early or raises in the loop of lines 131-143
ingest_upserts(session_id, text, filename) ==
    LET chunks == split_text(text)
        payloads == [i \in 1..Len(chunks) |-> ChunkPayload(session_id, filename, chunks, i - 1)]
    IN  IF chunks = <<>> \/ \E i \in 1..Len(payloads) : ~payloads[i].url.some
        THEN <<>>
        ELSE SubBatches(payloads)

NoIngestCall == [called |-> FALSE, session_id |-> <<>>, text |-> <<>>, raised |-> FALSE,
                 ret |-> 0, upserts |-> <<>>]

\* SessionVectorStore(session_id).ingest_document(text, filename) on the
\* created, empty collection of the session
IngestDocument(session_id, text, filename) ==
    /\ LET r == ingest_document(<<>>, session_id, text, filename)
       IN  ingestCall' = [called |-> TRUE, session_id |-> session_id, text |-> text,
                          raised |-> r.raised, ret |-> r.ret,
                          upserts |-> ingest_upserts(session_id, text, filename)]
    /\ UNCHANGED <<nonCallVars, reportCall, promptCall, analysisRuns, cleanupTask>>

-----------------------------------------------------------------------------
(* start_cleanup_task and the module variable _cleanup_task *)

\* the condition of line 252 that always creates a task
needs_task_always(task, status) == TRUE

\* line 252: _cleanup_task is None or _cleanup_task.done(); None is 0
needs_task(task, status) == task = 0 \/ status[task] = "done"

\* before the application starts: _cleanup_task is None, no task exists
NoCleanupTask == [_cleanup_task |-> 0, status |-> <<>>, calls |-> 0, created |-> 0,
                  was_running |-> FALSE]

\* start_cleanup_task(), called inside the running event loop; nothing is
\* awaited between the test and the assignment.  A task is named by its
\* position in `status`; created is the number of tasks this call created and
\* was_running tells whether a task was unfinished when it was made
StartCleanupTask ==
    /\ cleanupTask.calls < MaxStartCalls
    /\ LET start == needs_task(cleanupTask._cleanup_task, cleanupTask.status)
           status == IF start THEN Append(cleanupTask.status, "running")
                     ELSE cleanupTask.status
       IN  cleanupTask' =
              [_cleanup_task |-> IF start THEN Len(status) ELSE cleanupTask._cleanup_task,
               status |-> status,
               calls |-> cleanupTask.calls + 1,
               created |-> Len(status) - Len(cleanupTask.status),
               was_running |-> \E i \in DOMAIN cleanupTask.status :
                                   cleanupTask.status[i] = "running"]
    /\ UNCHANGED <<nonCallVars, reportCall, promptCall, analysisRuns, ingestCall>>

\* a sweep task finishes: cleanup_expired_sessions loops for ever and catches
\* Exception, so it ends only by being cancelled
CleanupTaskFinishes(i) ==
    /\ i \in DOMAIN cleanupTask.status
    /\ cleanupTask.status[i] = "running"
    /\ cleanupTask' = [cleanupTask EXCEPT !.status[i] = "done"]
    /\ UNCHANGED <<nonCallVars, reportCall, promptCall, analysisRuns, ingestCall>>

-----------------------------------------------------------------------------
Init ==
    /\ now = 0
    /\ cache = <<>>
    /\ cacheOps = <<>>
    /\ everSet = {}
    /\ nCacheOps = 0
    /\ searchCall = NoSearchCall
    /\ titlesCall = NoTitlesCall
    /\ uploaded = <<>>
    /\ collections = <<>>
    /\ deleteTasks = <<>>
    /\ collWriters = <<>>
    /\ collDoc = <<>>
    /\ nDbDeletes = [session_id \in SessionIds |-> 0]
    /\ sessionCall = NoSessionCall
    /\ cleanup = NoCleanup
    /\ table = {}
    /\ ingestRun = NoIngestRun
    /\ flow = NoFlow
    /\ docFlow = NoDocFlow
    /\ reportCall = NoReportCall
    /\ promptCall = NoPromptCall
    /\ analysisRuns = [r \in RequestIds |-> NoAnalysisRun]
    /\ ingestCall = NoIngestCall
    /\ cleanupTask = NoCleanupTask
    /\ sessionQuery = NoSessionQuery
    /\ nSessionOps = 0
    /\ llm_base_url \in BaseUrls
    /\ stream = NoStream
    /\ nUploads = 0
    /\ natlasRun = NoNatlasRun

NextCache ==
    \/ \E t \in Texts, a \in Analyses, l \in Languages : CacheSet(t, a, l)
    \/ \E t \in Texts, l \in Languages : CacheGet(t, l)
    \/ ClearCache
    \/ Tick

SpecCache == Init /\ [][NextCache]_vars

NextSearch ==
    /\ ~searchCall.called
    /\ \E sr \in SessionResponses, mr \in MainResponses, limit \in 0..MaxLimit :
          QueryWithFilters(sr[1], sr[2], mr[1], mr[2], limit)

SpecSearch == Init /\ [][NextSearch]_vars

NextTitles ==
    \E mr \in TitleResponses, limit \in 0..MaxLimit : QueryUniqueTitles(mr[1], mr[2], limit)

SpecTitles == Init /\ [][NextTitles]_vars

NextSession ==
    \/ \E session_id \in SessionIds, text \in StoredTexts, filename \in FileNames,
          qdrant_ok \in BOOLEAN :
            StoreUploadedDocument(session_id, text, filename, qdrant_ok)
    \/ \E session_id \in SessionIds, qdrant_ok \in BOOLEAN : SessionQuery(session_id, qdrant_ok)
    \/ \E session_id \in SessionIds : DeleteSession(session_id, TRUE, TRUE)
    \/ \E i \in 1..MaxSessionOps, qdrant_ok \in BOOLEAN : RunDeleteTask(i, qdrant_ok)

SpecSession == Init /\ [][NextSession]_vars

\* the sessions, their expiry and the background sweep
\* two sessions that share one collection name, one document
ExpirySessionIds == {<<"a", "-", "b">>, <<"a", ".", "b">>}

NextExpiry ==
    \/ /\ nSessionOps < MaxExpiryOps
       /\ \E session_id \in ExpirySessionIds, qdrant_ok \in BOOLEAN :
            StoreUploadedDocument(session_id, <<"a">>, <<"f">>, qdrant_ok)
    \/ /\ nSessionOps < MaxExpiryOps
       /\ \E session_id \in ExpirySessionIds, loop_running, qdrant_ok \in BOOLEAN :
            GetUploadedDocument(session_id, loop_running, qdrant_ok)
    \/ /\ nSessionOps < MaxExpiryOps
       /\ \E session_id \in ExpirySessionIds, loop_running, qdrant_ok \in BOOLEAN :
            DeleteSession(session_id, loop_running, qdrant_ok)
    \/ \E i \in 1..MaxSessionOps, qdrant_ok \in BOOLEAN : RunDeleteTask(i, qdrant_ok)
    \/ \E done \in SUBSET ExpirySessionIds, fails \in BOOLEAN : CleanupIteration(done, fails)
    \/ Tick

SpecExpiry == Init /\ [][NextExpiry]_vars

\* the sweep beside the uploads and the DELETE /session endpoint of the
\* running application
NextSweep ==
    \/ /\ nSessionOps < MaxExpiryOps
       /\ \E session_id \in ExpirySessionIds, qdrant_ok \in BOOLEAN :
            StoreUploadedDocument(session_id, <<"a">>, <<"f">>, qdrant_ok)
    \/ /\ nSessionOps < MaxExpiryOps
       /\ \E session_id \in ExpirySessionIds : DeleteSession(session_id, TRUE, TRUE)
    \/ \E i \in 1..MaxSessionOps, qdrant_ok \in BOOLEAN : RunDeleteTask(i, qdrant_ok)
    \/ \E done \in SUBSET ExpirySessionIds, fails \in BOOLEAN : CleanupIteration(done, fails)
    \/ Tick

\* the event loop schedules the sweep task again and again
SpecSweep ==
    /\ Init
    /\ [][NextSweep]_vars
    /\ WF_vars(\E done \in SUBSET ExpirySessionIds, fails \in BOOLEAN :
                  CleanupIteration(done, fails))

\* direct runs of the ingestion task
NextIngest ==
    \E ids \in IdLists, built_with \in {"document_id", "url"}, skip_existing \in BOOLEAN,
       db_fails \in {{}, {"1"}, {"Final batch"}} :
        IngestDocuments(ids, built_with, skip_existing, db_fails)

SpecIngest == Init /\ [][NextIngest]_vars

\* one run of the batch ingestion flow
NextFlow ==
    \/ \E total \in 0..MaxEntries : FlowStart(total)
    \/ \E document_id \in ConfigDocumentIds, outcome \in EntryOutcomes :
            FlowEntry(document_id, outcome)
    \/ FlowSummary
    \/ \E document_id \in ConfigDocumentIds, outcome \in EntryOutcomes :
            DocumentIngestionFlow(document_id, outcome)

SpecFlow == Init /\ [][NextFlow]_vars

NextReport ==
    /\ ~reportCall.called
    /\ \E analysis_text \in AnalysisTexts : GenerateSummaryReport(analysis_text)

SpecReport == Init /\ [][NextReport]_vars

NextPrompt ==
    \/ \E provider \in AskProviders, query_text \in PromptTexts, language \in PromptLanguages :
            AskWithGenerationStream(provider, query_text, language)
    \/ \E agreement_text \in PromptTexts, language \in PromptLanguages :
            AnalysisStreamingFunction(agreement_text, language)

SpecPrompt == Init /\ [][NextPrompt]_vars

NextQueries ==
    \/ \E r \in RequestIds : AnalysisLoopStart(r)
    \/ \E r \in RequestIds : SubQueryIssued(r)
    \/ \E r \in RequestIds, outcome \in QueryOutcomes : SubQueryEnded(r, outcome)

SpecQueries == Init /\ [][NextQueries]_vars

NextChunks ==
    \E session_id \in SessionIds, text \in ChunkedTexts, filename \in FileNames :
        IngestDocument(session_id, text, filename)

SpecChunks == Init /\ [][NextChunks]_vars

NextStartup ==
    \/ StartCleanupTask
    \/ \E i \in 1..MaxStartCalls : CleanupTaskFinishes(i)

SpecStartup == Init /\ [][NextStartup]_vars

NextNatlas ==
    \/ \E llm \in LLMBehaviours : StreamNatlas(llm)
    \/ NatlasNext

SpecNatlas == Init /\ [][NextNatlas]_vars

NextStream ==
    \/ \E sid \in FormSessionIds, l \in UploadLanguages : UploadExtractRaises(sid, l)
    \/ \E sid \in FormSessionIds, l \in UploadLanguages, t \in UploadTexts :
            UploadNoText(sid, l, t)
    \/ \E sid \in FormSessionIds, l \in UploadLanguages, t \in UploadTexts,
          f \in UploadFileNames, qdrant_ok \in BOOLEAN : UploadStored(sid, l, t, f, qdrant_ok)
    \/ RouteStarting
    \/ AnalysisCacheHit
    \/ AnalysisYieldCached
    \/ AnalysisCacheMiss
    \/ AnalysisAnalyzing
    \/ \E outcome \in QueryOutcomes : AnalysisQuery(outcome)
    \/ AnalysisReport
    \/ AnalysisPrompt
    \/ AnalysisPromptRaises
    \/ AnalysisNoBaseUrl
    \/ \E llm \in LLMBehaviours : AnalysisGenerate(llm)
    \/ AnalysisRelay
    \/ AnalysisEnd
    \/ TickBetweenRequests

SpecStream == Init /\ [][NextStream]_vars

-----------------------------------------------------------------------------
(* Properties of the cache *)

LastCacheOp == cacheOps[Len(cacheOps)]

\* C8: cache round trip.  When set_cached_analysis(text, analysis, lang) is
\* immediately followed by get_cached_analysis(text, lang'), the get returns
\* exactly `analysis` if lang' = lang, and returns absent if lang' differs
\* from lang and set_cached_analysis was never called for (text, lang').
\* (A later set for the same pair overwrites: the get returns the last one.)
C8_CacheRoundTrip ==
    (/\ Len(cacheOps) = 2
     /\ cacheOps[1].op = "set" /\ cacheOps[2].op = "get"
     /\ cacheOps[2].text = cacheOps[1].text
     /\ cacheOps[2].at = cacheOps[1].at)
    => /\ cacheOps[2].language = cacheOps[1].language
            => cacheOps[2].ret = Some(cacheOps[1].analysis)
       /\ (/\ cacheOps[2].language # cacheOps[1].language
           /\ <<cacheOps[2].text, cacheOps[2].language>> \notin everSet)
            => cacheOps[2].ret = Absent

\* C9: cache expiry.  A get on an entry whose timestamp is more than 24 hours
\* in the past returns absent and removes exactly that entry; a get on an
\* entry younger than 24 hours returns its analysis and leaves the cache as
\* it was.
C9_CacheExpiry ==
    (Len(cacheOps) >= 1 /\ LastCacheOp.op = "get") =>
        LET g == LastCacheOp
            key == _generate_cache_key(g.text, g.language)
        IN  key \in DOMAIN g.before =>
              LET age == g.at - g.before[key].timestamp
              IN  /\ age > CACHE_TTL =>
                       /\ g.ret = Absent
                       /\ DOMAIN cache = DOMAIN g.before \ {key}
                       /\ \A k \in DOMAIN cache : cache[k] = g.before[k]
                  /\ age < CACHE_TTL =>
                       /\ g.ret = Some(g.before[key].analysis)
                       /\ cache = g.before

\* an expired entry was looked up while another entry was in the cache
C9_Witness ==
    /\ Len(cacheOps) >= 1 /\ LastCacheOp.op = "get"
    /\ LET g == LastCacheOp
           key == _generate_cache_key(g.text, g.language)
       IN  /\ key \in DOMAIN g.before
           /\ g.at - g.before[key].timestamp > CACHE_TTL
           /\ Cardinality(DOMAIN g.before) >= 2
           /\ g.ret = Absent

-----------------------------------------------------------------------------
(* Properties of query_with_filters *)

SessionDocIds(c) == {c.session_chunks[i].document_id : i \in 1..Len(c.session_chunks)}
MainDocIds(c) == {c.points[i].document_id : i \in 1..Len(c.points)}

\* C10: search deduplication.  The list query_with_filters returns holds at
\* most one entry per document_id, and an entry whose document_id occurs in
\* both the session results and the main results is the session-store one.
C10_SearchDedup ==
    searchCall.called =>
        LET out == searchCall.ret
        IN  /\ \A i, j \in 1..Len(out) :
                   out[i].document_id = out[j].document_id => i = j
            /\ \A i \in 1..Len(out) :
                   out[i].document_id \in SessionDocIds(searchCall) \cap MainDocIds(searchCall)
                       => out[i].origin = "session"

\* a call whose two sources overlap on a document_id that is returned
C10_Witness ==
    /\ searchCall.called
    /\ searchCall.session = "ok" /\ searchCall.main = "ok"
    /\ \E i \in 1..Len(searchCall.ret) :
          /\ searchCall.ret[i].document_id \in SessionDocIds(searchCall) \cap MainDocIds(searchCall)
          /\ searchCall.ret[i].origin = "session"

-----------------------------------------------------------------------------
(* Properties of the streams *)

HasPrefix(item, prefix) == item # <<>> /\ item[1] = prefix
IsMetadata(item) == HasPrefix(item, "__metadata__:")
IsError(item) == HasPrefix(item, "__error__:")
IsControl(item) ==
    \E prefix \in {"__metadata__:", "__progress__:", "__error__:", "__truncated__"} :
        HasPrefix(item, prefix)
Count(seq, P(_)) == Len(SelectSeq(seq, P))

\* C2 (as stated): in every finished response stream, whatever the outcome of
\* extraction, storage and analysis, exactly one __metadata__: line was emitted
\* and it is the first item of the stream.
C2_MetadataAlwaysFirst ==
    stream.pc = "done"
        => Count(stream.http, IsMetadata) = 1 /\ IsMetadata(stream.http[1])

\* C2 (amended): at most one __metadata__: line is emitted, no item precedes
\* it, and a finished stream has one exactly when text extraction returned a
\* text that is not blank, whatever the outcome of storage and analysis; when
\* extraction raised or returned blank text no metadata line is emitted.
C2_MetadataFirstWhenExtracted ==
    /\ Count(stream.http, IsMetadata) <= 1
    /\ \A i \in DOMAIN stream.http : IsMetadata(stream.http[i]) => i = 1
    /\ stream.pc = "done"
         => (Count(stream.http, IsMetadata) = 1
               <=> /\ stream.extraction = "text"
                   /\ \E i \in DOMAIN stream.text : stream.text[i] # " ")

\* a finished stream that began with the metadata line and ended with an error
C2_Witness ==
    /\ stream.pc = "done"
    /\ Len(stream.http) > 3
    /\ IsMetadata(stream.http[1])
    /\ IsError(stream.http[Len(stream.http)])

IsLabelLine(item) ==
    \E i \in DOMAIN Labels :
        item \in {Analyzing(Labels[i]), Analyzed(Labels[i]), TimedOut(Labels[i]), Failed(Labels[i])}

\* the outcome line that reports what happened to a query
OutcomeLineFor(label, outcome) ==
    CASE outcome = "returned" -> Analyzed(label)
      [] outcome = "timeout" -> TimedOut(label)
      [] outcome = "raised" -> Failed(label)

\* C3: on a cache miss, once the stream of analyze_agreement_for_risks_stream
\* has ended after its three queries, its Analyzing/outcome lines are, in the
\* order rights, warnings, procedures, one `Analyzing {label}...` line followed
\* by exactly one outcome line that reports what happened to that label's query
\* (analyzed: it returned; timed out: it exceeded 15 s; failed: it raised), and
\* all of them come before the first item without a control prefix.
C3_ProgressLines ==
    (stream.pc = "done" /\ Len(stream.outcomes) = Len(Labels))
        => /\ SelectSeq(stream.svc, IsLabelLine)
                = <<Analyzing(Labels[1]), OutcomeLineFor(Labels[1], stream.outcomes[1]),
                    Analyzing(Labels[2]), OutcomeLineFor(Labels[2], stream.outcomes[2]),
                    Analyzing(Labels[3]), OutcomeLineFor(Labels[3], stream.outcomes[3])>>
           /\ \A i, j \in DOMAIN stream.svc :
                (IsLabelLine(stream.svc[i]) /\ ~IsControl(stream.svc[j])) => i < j

\* C4: in the response stream of an upload, whatever fails (extraction,
\* storage, retrieval, prompt building, generation), the route generator never
\* ends by raising, at most one __error__: item is emitted, and an __error__:
\* item is the last item of the stream.
C4_SingleTrailingError ==
    /\ ~stream.escaped
    /\ Count(stream.http, IsError) <= 1
    /\ \A i \in DOMAIN stream.http : IsError(stream.http[i]) => i = Len(stream.http)

\* the analysis generator raised while building the prompt, after the progress
\* lines, and the stream ended with the route's error item
C4_Witness ==
    /\ stream.pc = "done"
    /\ stream.svcRaised
    /\ Len(stream.http) > 3
    /\ IsError(stream.http[Len(stream.http)])

\* C5: when the chat-completion call fails before any content arrives, the
\* natlas streaming function yields exactly one chunk, which begins with
\* __error__:, and then ends without raising.
C5_UnreachableOneErrorChunk ==
    (natlasRun.invoked /\ natlasRun.res.called /\ natlasRun.llm.create = "fails")
        => /\ Len(natlasRun.received) <= 1
           /\ natlasRun.ended
                => /\ Len(natlasRun.received) = 1
                   /\ IsError(natlasRun.received[1])
                   /\ ~natlasRun.res.raised

C5_Witness ==
    /\ natlasRun.invoked /\ natlasRun.ended
    /\ natlasRun.res.called
    /\ natlasRun.llm.create = "fails"

\* the provider failed: no base URL, a failed call, or a broken stream
ProviderFailed(run) == ~Truthy(llm_base_url) \/ run.llm.create = "fails" \/ run.llm.breaks

\* C6 (as stated): stream_natlas never raises to its consumer; for every cause
\* of provider failure, a missing base URL included, it yields a single
\* __error__: chunk and ends normally.
C6_NatlasNeverRaises ==
    (natlasRun.invoked /\ natlasRun.ended)
        => /\ ~natlasRun.res.raised
           /\ ProviderFailed(natlasRun)
                => /\ Count(natlasRun.received, IsError) = 1
                   /\ IsError(natlasRun.received[Len(natlasRun.received)])

\* C6 (amended): stream_natlas raises to its consumer exactly when no LLM base
\* URL is configured, and then before it has yielded anything; when the
\* chat-completion call fails or the stream breaks (network error, non-2xx
\* response) it yields a single __error__: chunk, as its last chunk, and ends
\* normally.
C6_NatlasRaisesOnlyWithoutBaseUrl ==
    (natlasRun.invoked /\ natlasRun.ended)
        => /\ natlasRun.res.raised <=> ~Truthy(llm_base_url)
           /\ natlasRun.res.raised => natlasRun.received = <<>>
           /\ (Truthy(llm_base_url) /\ ProviderFailed(natlasRun))
                => /\ Count(natlasRun.received, IsError) = 1
                   /\ IsError(natlasRun.received[Len(natlasRun.received)])

\* the stream broke after content had been yielded
C6_Witness ==
    /\ natlasRun.invoked /\ natlasRun.ended
    /\ Truthy(llm_base_url)
    /\ natlasRun.llm.breaks
    /\ Len(natlasRun.received) >= 2

\* the stream of a cache hit, and nothing else done
ShortCircuit(cached_text) ==
    /\ stream.queries = 0 /\ stream.providerCalls = 0 /\ stream.cacheWrites = 0
    /\ \E n \in 0..2 : stream.svc = SubSeq(<<LoadingFromCache, cached_text>>, 1, n)
    /\ stream.pc = "done" => stream.svc = <<LoadingFromCache, cached_text>>

\* C7 (as stated): whenever the cache holds an unexpired entry for
\* (agreement_text, language) when the analysis starts, whatever the cached
\* text, the stream is the `Loading from cache...` line followed by the cached
\* text, and no retrieval query, provider call or cache write happens.
C7_CacheHitShortCircuit ==
    stream.cached.some => ShortCircuit(stream.cached.val)

\* C7 (amended): the same, for an unexpired entry whose cached text is not
\* empty; an empty cached text is treated as a miss.
C7_NonEmptyCacheHitShortCircuit ==
    (stream.cached.some /\ stream.cached.val # <<>>) => ShortCircuit(stream.cached.val)

C7_Witness ==
    /\ stream.pc = "done"
    /\ stream.cached.some /\ stream.cached.val # <<>>
    /\ Len(stream.svc) = 2

\* the truthy document ids of a list of results
TruthyDocIds(results) ==
    {results[i].document_id : i \in DOMAIN results} \ {NoId}

\* C12: query_with_filters does not raise when the session query fails, when
\* the main query fails, or when both fail; the failed source contributes no
\* result and the results of the other source are returned (one per truthy
\* document id; nothing when both fail).
C12_RetrievalDegradation ==
    (searchCall.called /\ (searchCall.session = "raised" \/ searchCall.main = "raised"))
        => /\ ~searchCall.raised
           /\ searchCall.session = "raised"
                => /\ \A i \in DOMAIN searchCall.ret : searchCall.ret[i].origin = "main"
                   /\ searchCall.main = "ok"
                        => TruthyDocIds(searchCall.ret)
                             = TruthyDocIds(Take(MainResults(searchCall.points, {}),
                                                 searchCall.limit))
           /\ searchCall.main = "raised"
                => /\ \A i \in DOMAIN searchCall.ret : searchCall.ret[i].origin = "session"
                   /\ searchCall.session = "ok"
                        => TruthyDocIds(searchCall.ret)
                             = TruthyDocIds(SessionResults(searchCall.session_chunks))
           /\ (searchCall.session = "raised" /\ searchCall.main = "raised")
                => searchCall.ret = <<>>

\* the session query failed and the main collection's results came back
C12_Witness ==
    /\ searchCall.called /\ ~searchCall.raised
    /\ searchCall.session = "raised" /\ searchCall.main = "ok"
    /\ Len(searchCall.ret) = 2

\* the positions in the response of the results returned, in order
RECURSIVE FirstOccurrences(_, _, _)
FirstOccurrences(points, seen_titles, i) ==
    IF i > Len(points) THEN <<>>
    ELSE IF points[i].section_title = NoTitle \/ points[i].section_title \in seen_titles
         THEN FirstOccurrences(points, seen_titles, i + 1)
         ELSE <<points[i]>>
              \o FirstOccurrences(points, seen_titles \cup {points[i].section_title}, i + 1)

\* C11: for every limit N >= 0 and every response of the vector back end,
\* query_unique_titles returns at most N results, no two of them share a
\* section_title, and they are the first occurrences of their titles in the
\* fused-ranking order of the response.
C11_UniqueTitlesLimit ==
    titlesCall.called
        => /\ Len(titlesCall.ret) <= titlesCall.limit
           /\ \A i, j \in DOMAIN titlesCall.ret :
                  i # j => titlesCall.ret[i].section_title # titlesCall.ret[j].section_title
           /\ \E n \in 0..Len(titlesCall.points) :
                  titlesCall.ret = Take(FirstOccurrences(titlesCall.points, {}, 1), n)

\* C14: get_uploaded_document never returns a record whose expiry time has
\* passed: it returns the stored record when there is one that is not expired
\* and leaves the map alone; it returns absent when nothing is stored; and for
\* a record past its expiry it returns absent, removes the record from the map
\* and starts the deletion of the session's collection.
C14_GetNeverReturnsExpired ==
    sessionCall.op = "get_uploaded_document" =>
        LET session_id == sessionCall.session_id
            stored == session_id \in DOMAIN sessionCall.before
            expired == stored /\ sessionCall.t > sessionCall.before[session_id].expires_at
        IN  /\ ~sessionCall.raised
            /\ \A doc_data \in sessionCall.ret : sessionCall.t <= doc_data.expires_at
            /\ (stored /\ ~expired) =>
                   /\ sessionCall.ret = {sessionCall.before[session_id]}
                   /\ ~sessionCall.changed
            /\ ~stored => (sessionCall.ret = {} /\ ~sessionCall.changed)
            /\ expired =>
                   /\ sessionCall.ret = {}
                   /\ sessionCall.after = Without(sessionCall.before, session_id)
                   /\ sessionCall.started = 1

\* an expired record was asked for outside a running loop
C14_Witness ==
    /\ sessionCall.op = "get_uploaded_document"
    /\ sessionCall.session_id \in DOMAIN sessionCall.before
    /\ sessionCall.t > sessionCall.before[sessionCall.session_id].expires_at
    /\ ~sessionCall.loop_running

\* C15: delete_session never raises, whether or not the session's collection
\* exists or its deletion fails; it returns true exactly when a record existed
\* in the map, which it removes, and false otherwise, leaving the map, the
\* collections and the scheduled deletions unchanged; and the expiry sweep
\* keeps running.
C15_DeleteSessionNeverRaises ==
    /\ cleanup.running
    /\ sessionCall.op = "delete_session" =>
           LET session_id == sessionCall.session_id
               stored == session_id \in DOMAIN sessionCall.before
           IN  /\ ~sessionCall.raised
               /\ sessionCall.deleted = stored
               /\ stored => sessionCall.after = Without(sessionCall.before, session_id)
               /\ ~stored => ~sessionCall.changed

\* a stored session was deleted outside a running loop and the deletion of
\* its collection failed inside the call
C15_Witness ==
    /\ sessionCall.op = "delete_session"
    /\ ~sessionCall.loop_running
    /\ sessionCall.session_id \in DOMAIN sessionCall.before
    /\ sessionCall.db_failed
    /\ sessionCall.deleted

\* C17: store_uploaded_document is best-effort about vector indexing: when
\* creating the session collection or ingesting the text fails, the call still
\* returns normally, with the session id, the document id and the expiry, and
\* the map holds the record of that document for the session id.
C17_StoreBestEffort ==
    (sessionCall.op = "store_uploaded_document" /\ sessionCall.db_failed) =>
        LET session_id == sessionCall.session_id
        IN  /\ ~sessionCall.raised
            /\ session_id \in DOMAIN sessionCall.after
            /\ sessionCall.ret =
                   {[session_id |-> session_id,
                     document_id |-> sessionCall.after[session_id].document_id,
                     expires_at |-> sessionCall.t + DEFAULT_SESSION_EXPIRY]}
            /\ sessionCall.after[session_id].expires_at
                   = sessionCall.t + DEFAULT_SESSION_EXPIRY
            /\ sessionCall.after[session_id].document_id
                   = generate_document_id(session_id, sessionCall.after[session_id].filename,
                                          sessionCall.t)

\* a store whose collection could not be created, the vector store being down
C17_Witness ==
    /\ sessionCall.op = "store_uploaded_document"
    /\ sessionCall.db_failed
    /\ get_session_collection_name(sessionCall.session_id) \notin DOMAIN collections
    /\ sessionCall.session_id \in DOMAIN uploaded

\* the number of rows of the table whose url is the document id
RowCount(rows, document_id) == Cardinality({row \in rows : row.url = document_id})

\* the ids of a list
IdsOf(ids) == {ids[i] : i \in DOMAIN ids}

\* C18: a run of ingest_documents with skip_existing, the database accepting
\* every insert, does not raise and leaves exactly one row for each document
\* handed over, whether the document was in the table before (its row count
\* stays one) or is new (it is inserted).
C18_IdempotentReingestion ==
    (ingestRun.called /\ ingestRun.skip_existing /\ ingestRun.db_fails = {}) =>
        /\ ~ingestRun.raised
        /\ \A document_id \in IdsOf(ingestRun.ids) : RowCount(table, document_id) = 1

\* the number of batches the items of a run fall into when none is skipped
BatchesOf(n) == (n + DOCUMENT_BATCH_SIZE - 1) \div DOCUMENT_BATCH_SIZE

\* C19: in a run of ingest_documents every batch is attempted whichever
\* batches fail, the task raises exactly when a batch failed and then raises
\* the aggregate error, every item has its row when no batch failed, no row
\* is added when every batch failed, and the session is closed.
C19_BatchFailureIsolation ==
    (ingestRun.called /\ ingestRun.before = {}) =>
        /\ ingestRun.attempted = BatchesOf(Len(ingestRun.ids))
        /\ ingestRun.raised <=> ingestRun.errors # <<>>
        /\ ingestRun.raised => ingestRun.error = "RuntimeError"
        /\ ingestRun.errors = <<>> =>
               \A document_id \in IdsOf(ingestRun.ids) : RowCount(table, document_id) >= 1
        /\ Len(ingestRun.errors) = ingestRun.attempted => table = ingestRun.before
        /\ ingestRun.closed

\* C20: the flow is not fail-fast: the entries are processed one after the
\* other, each exactly once whatever happened to the earlier ones; successful
\* and failed add up to the entries processed, and to the total at the end;
\* the flow raises only after the last entry, and exactly when an entry
\* failed.
C20_FlowNotFailFast ==
    /\ Len(flow.outcomes) = flow.idx - 1
    /\ flow.successful + flow.failed = Len(flow.outcomes)
    /\ flow.raised => (flow.pc = "done" /\ Len(flow.outcomes) = flow.total)
    /\ flow.pc \in {"summary", "done"} => flow.successful + flow.failed = flow.total
    /\ flow.pc = "done" => (flow.raised <=> flow.failed > 0)

\* a run whose first entry had no PDF, whose second failed in the ingestion
\* and whose third was still processed, ending with the aggregate error
C20_Witness ==
    /\ flow.pc = "done"
    /\ flow.total >= 3
    /\ flow.outcomes[1] = "missing_pdf"
    /\ flow.outcomes[2] = "items"
    /\ flow.failed >= 2
    /\ flow.raised

\* C21: on every exit of document_ingestion_flow and of
\* batch_document_ingestion_flow (success, failure, empty extraction, empty
\* manifest) the engine created at the start of the flow has been disposed.
C21_EngineDisposed ==
    /\ docFlow.pc = "done" => docFlow.disposed
    /\ flow.pc = "done" => flow.disposed

\* the number of lines of the text that start with the marker
MarkerLines(analysis_text, marker) ==
    Cardinality({i \in DOMAIN analysis_text : StartsWith(strip(analysis_text[i]), marker)})

\* the header is a line of the text report
HasHeader(text, header) == \E i \in DOMAIN text : text[i] = <<header>>

\* C22: for an analysis text with at least one line starting with each of the
\* three finding markers, the summary counts of the JSON report are the
\* numbers of lines starting with the respective marker, and the text report
\* has the section header of every bucket that is not empty.
C22_ReportCounts ==
    (/\ reportCall.called
     /\ \A marker \in {RightsMarker, WarningMarker, PredatoryMarker} :
           MarkerLines(reportCall.analysis_text, marker) >= 1) =>
        /\ reportCall.summary.total_rights
               = MarkerLines(reportCall.analysis_text, RightsMarker)
        /\ reportCall.summary.total_warnings
               = MarkerLines(reportCall.analysis_text, WarningMarker)
        /\ reportCall.summary.total_predatory_clauses
               = MarkerLines(reportCall.analysis_text, PredatoryMarker)
        /\ reportCall.sections.intro # <<>> => HasHeader(reportCall.text, "INTRODUCTION")
        /\ HasHeader(reportCall.text, "YOUR RIGHTS")
        /\ HasHeader(reportCall.text, "WARNINGS")
        /\ HasHeader(reportCall.text, "PREDATORY CLAUSES DETECTED")

\* the position of the `Generating analysis...` line among the items the
\* analysis generator yielded, 0 when it has not been yielded
GeneratingAt ==
    IF \E i \in DOMAIN stream.svc : stream.svc[i] = GeneratingAnalysis
    THEN CHOOSE i \in DOMAIN stream.svc : stream.svc[i] = GeneratingAnalysis
    ELSE 0

\* the generation part (lines 142-165) was left through its except clause
GenerationRaised ==
    /\ GeneratingAt > 0
    /\ stream.svc[Len(stream.svc)]
           \in {AnalysisError(BaseUrlNotConfigured), AnalysisError("provider error")}

\* the chunks yielded by lines 156-158, in order
GenerationChunks ==
    SubSeq(stream.svc, GeneratingAt + 1,
           IF GenerationRaised THEN Len(stream.svc) - 1 ELSE Len(stream.svc))

RECURSIVE Concatenation(_)
Concatenation(chunks) ==
    IF chunks = <<>> THEN <<>> ELSE Head(chunks) \o Concatenation(Tail(chunks))

\* C24: cache population.  After a cache-miss run of
\* analyze_agreement_for_risks_stream has ended: if the generation completed
\* without exception, the cache maps the key of (agreement_text, language) to
\* exactly the in-order concatenation of the chunks relayed during the
\* generation (progress lines excluded); if the generation raised, the cache
\* is as the lookup of the run left it.
C24_CachePopulation ==
    (stream.pc = "done" /\ GeneratingAt > 0) =>
        IF GenerationRaised
        THEN /\ LastCacheOp.op = "get"
             /\ cache = get_cached_analysis(LastCacheOp.before, stream.text,
                                            stream.language, LastCacheOp.at).cache
        ELSE LET cache_key == _generate_cache_key(stream.text, stream.language)
             IN  /\ cache_key \in DOMAIN cache
                 /\ cache[cache_key].analysis = Concatenation(GenerationChunks)

\* a generation that relayed two chunks has ended without exception
C24_Witness ==
    /\ stream.pc = "done"
    /\ GeneratingAt > 0 /\ ~GenerationRaised
    /\ Len(GenerationChunks) = 2
    /\ stream.cacheWrites = 1

\* a generation has ended through its except clause
C24_RaisedReached ==
    stream.pc = "done" /\ GenerationRaised

\* the tokens of the cached analysis texts
CachedTokens ==
    UNION {{cache[k].analysis[i] : i \in DOMAIN cache[k].analysis} : k \in DOMAIN cache}

\* C25: the analysis cache never stores a failed generation: no cached
\* analysis text contains an `__error__:` chunk.
C25_NoErrorCached == "__error__:" \notin CachedTokens

\* C26: sub-queries are serialized.  Within one run of the analysis generator
\* at most one retrieval sub-query is in flight, and sub-query k+1 is issued
\* only after sub-query k has returned, raised or been cancelled by its
\* timeout: when it is issued no sub-query of the run is in flight and k
\* results have been appended.  (Sub-queries of different requests may be in
\* flight together: C26_Witness.)
C26_SubQueriesSerialized ==
    \A r \in RequestIds :
        /\ Cardinality(analysisRuns[r].in_flight) <= 1
        /\ ~analysisRuns[r].overlap
        /\ analysisRuns[r].issued - Len(analysisRuns[r].results)
               = (IF analysisRuns[r].pc = "awaiting" THEN 1 ELSE 0)
        /\ analysisRuns[r].pc = "awaiting"
               => analysisRuns[r].in_flight = {Labels[analysisRuns[r].issued]}

\* two requests each have a sub-query in flight, one of them after a sub-query
\* of its run was cancelled by the timeout
C26_Witness ==
    /\ \A r \in RequestIds : analysisRuns[r].in_flight # {}
    /\ \E r \in RequestIds :
          /\ analysisRuns[r].issued = 2
          /\ analysisRuns[r].results = << <<"rights", "timeout">> >>

\* the chunk texts stored in the collection of a session
StoredChunkTexts(session_id) ==
    LET points == collections[get_session_collection_name(session_id)]
    IN  {points[id].chunk_text : id \in DOMAIN points}

UpsertedPoints == Concatenation(ingestCall.upserts)

\* C28: chunk ingestion.  ingest_document for a text of k chunks does not
\* raise, returns k and upserts exactly k points in consecutive sub-batches of
\* at most INGEST_BATCH_SIZE, in chunk order: the i-th point (from 0) has the
\* document_id `{session_id}__chunk_{i}` and the section title
\* `Section {i+1}`, and its point id is derived from that document_id; for
\* k = 0 it returns 0 and upserts nothing.
C28_ChunkIngestion ==
    ingestCall.called =>
        LET k == Len(split_text(ingestCall.text))
        IN  /\ ~ingestCall.raised
            /\ ingestCall.ret = k
            /\ k = 0 => ingestCall.upserts = <<>>
            /\ Len(UpsertedPoints) = k
            /\ \A b \in DOMAIN ingestCall.upserts :
                  /\ Len(ingestCall.upserts[b]) \in 1..INGEST_BATCH_SIZE
                  /\ b < Len(ingestCall.upserts)
                        => Len(ingestCall.upserts[b]) = INGEST_BATCH_SIZE
            /\ \A i \in 1..Len(UpsertedPoints) :
                  LET document_id == ingestCall.session_id \o <<"__chunk_", i - 1>>
                      stored == ChunkDict(UpsertedPoints[i].payload)
                  IN  /\ stored.document_id = Some(document_id)
                      /\ stored.section_title = Some(<<"Section ", i>>)
                      /\ UpsertedPoints[i].id = <<"md5[:8]">> \o document_id

\* the sweep tasks that have not finished
UnfinishedTasks == {i \in DOMAIN cleanupTask.status : cleanupTask.status[i] = "running"}

\* C29: start_cleanup_task is idempotent.  At most one sweep task is
\* unfinished at any time; a call made while a task is running creates no
\* task; a call made when no task is running (none yet, or the previous one
\* finished) creates exactly one.
C29_StartIdempotent ==
    /\ Cardinality(UnfinishedTasks) <= 1
    /\ cleanupTask.calls > 0 =>
          cleanupTask.created = (IF cleanupTask.was_running THEN 0 ELSE 1)

\* a call made after the previous task finished has created the second task,
\* and a further call has created nothing
C29_Witness ==
    /\ Len(cleanupTask.status) = 2
    /\ cleanupTask.status = <<"done", "running">>
    /\ cleanupTask.calls = 3
    /\ cleanupTask.was_running /\ cleanupTask.created = 0

\* no text could be extracted for the request: the extraction raised, or the
\* text it returned is empty or white space
NoTextExtracted(req) ==
    req.extraction = "raised" \/ \A i \in DOMAIN req.text : req.text[i] = " "

\* C30: an upload from which no text can be extracted changes no state.  The
\* step that serves such an upload ends the response, whose stream is a single
\* `__error__:` line, and leaves the session map, every session collection
\* and the analysis cache unchanged.
C30_NoTextNoEffect ==
    [][(nUploads' = nUploads + 1 /\ NoTextExtracted(stream')) =>
          /\ stream'.pc = "done"
          /\ Len(stream'.http) = 1
          /\ Head(stream'.http[1]) = "__error__:"
          /\ UNCHANGED <<uploaded, collections, cache>>]_vars

\* an upload without text has been served after an upload that left a session
\* record, a session collection and a cached analysis
C30_Witness ==
    /\ stream.pc = "done"
    /\ stream.extraction = "text" /\ NoTextExtracted(stream)
    /\ nUploads = 2
    /\ uploaded # <<>> /\ collections # <<>> /\ cache # <<>>

\* the language names a rendered prompt tells the model to respond in
InstructedLanguages(prompt) ==
    {prompt[i + 1] : i \in {j \in 1..(Len(prompt) - 1) : prompt[j] \in Directives}}

\* C23: response language selection.  For an ask request or an agreement
\* upload carrying the language code L, a fully rendered prompt is sent to the
\* provider, it instructs the model to respond in the language named by L,
\* and it instructs English only when L is "en" or is not a recognised code.
C23_ResponseLanguage ==
    (promptCall.kind # "none" /\ promptCall.provider # "other") =>
        /\ promptCall.sent
        /\ language_names(promptCall.language) \in InstructedLanguages(promptCall.prompt)
        /\ "English" \in InstructedLanguages(promptCall.prompt)
               => promptCall.language \notin {"yo", "ha", "ig"}

\* a record of the map whose expiry has passed
Expired(session_id) ==
    /\ session_id \in DOMAIN uploaded
    /\ now > uploaded[session_id].expires_at

\* C16: with the sweep task scheduled fairly, every record whose expiry has
\* passed is eventually no longer in the map; every step that takes an expired
\* record out of the map starts the deletion of its collection; and the sweep
\* loop never terminates, also after an iteration that failed.
C16_SweepLiveness ==
    /\ \A session_id \in ExpirySessionIds : Expired(session_id) ~> ~Expired(session_id)
    /\ [][\A session_id \in SessionIds :
             (Expired(session_id) /\ session_id \notin DOMAIN uploaded')
                 => nDbDeletes'[session_id] = nDbDeletes[session_id] + 1]_vars
    /\ [](cleanup.running)

\* an iteration of the sweep failed and a later one removed a record
C16_Witness ==
    /\ cleanup.failures > 0
    /\ cleanup.last_removed # {}
    /\ cleanup.running

\* the chunk texts held by the points of a collection
PointTexts(points) == {points[id].chunk_text.val : id \in DOMAIN points}

=============================================================================
